---------------------------- MODULE Spec2Model ----------------------------
(***************************************************************************)
(* Model of the scan-classify-dedup-write job of UnavailableSpotifyTracks  *)
(* (src/app.py): one background worker per job, the process-wide JOBS      *)
(* table guarded by JOBS_LOCK, and the status / CSV export routes that     *)
(* read a job while its worker runs.                                       *)
(*                                                                         *)
(* Text that the code matches with regular expressions (locators,          *)
(* playlist identifiers, URLs) is a sequence of one-character strings.     *)
(* Text that the code only builds and stores (status, reasons, notes) is   *)
(* a TLA+ string.  Python's None is the empty sequence <<>> for optional   *)
(* values (Some(x) is <<x>>), and "" for optional text fields.             *)
(***************************************************************************)
EXTENDS Integers, Sequences, FiniteSets, TLC

VARIABLES
    JOBS,        \* app.JOBS: job_id -> job record
    JOBS_LOCK,   \* holder of app.JOBS_LOCK: "free", "worker", "status", "export"
    env,         \* the external catalog: [cat, rejected]
    params,      \* keyword arguments of start_job
    pc,          \* position of the worker thread
    w,           \* locals of worker() during resolve / estimate / scan / filter
    wr,          \* locals of the write loop, safe_add_items and add_chunk
    st,          \* the /status/<job_id> request being served
    ex,          \* the /unavailable/<job_id>.csv or /baduris/<job_id>.csv request
    hist         \* history of the run (what was enumerated, offered, called)

vars == <<JOBS, JOBS_LOCK, env, params, pc, w, wr, st, ex, hist>>

-----------------------------------------------------------------------------
(* Bounds of the model *)

\* longest candidate list drawn by the write-phase specification
MaxUris == 7

-----------------------------------------------------------------------------
(* Program constants *)

IdLen == 22                 \* [0-9A-Za-z]{22}
PlaylistPageLimit == 50     \* iter_user_playlists: limit
ItemsPageLimit == 100       \* iter_playlist_items: limit
SavedPageLimit == 50        \* worker, saved tracks: limit
AddItemsLimit == 100        \* safe_add_items: uris[i:i+100]
BatchMin == 1               \* start: max(1, ...)
BatchMax == 100             \* start: min(100, ...)
BatchDefault == 100         \* start: request.args.get("batch_size") or "100"

-----------------------------------------------------------------------------
(* Text helpers *)

None == <<>>
Some(x) == <<x>>

Min(a, b) == IF a <= b THEN a ELSE b
Max(a, b) == IF a >= b THEN a ELSE b

\* Python slice s[a:b] for 0 <= a (0-based, end exclusive, clipped)
Slice(s, a, b) == SubSeq(s, a + 1, Min(b, Len(s)))

Range(s) == {s[i] : i \in 1..Len(s)}

Digits == {"0", "1", "2", "3", "4", "5", "6", "7", "8", "9"}
Lower == {"a", "b", "c", "d", "e", "f", "g", "h", "i", "j", "k", "l", "m",
          "n", "o", "p", "q", "r", "s", "t", "u", "v", "w", "x", "y", "z"}
Upper == {"A", "B", "C", "D", "E", "F", "G", "H", "I", "J", "K", "L", "M",
          "N", "O", "P", "Q", "R", "S", "T", "U", "V", "W", "X", "Y", "Z"}
\* the character class [0-9A-Za-z]
AlNum == Digits \cup Lower \cup Upper
\* characters str.strip() removes
Whitespace == {" ", "\t", "\n"}

TrackPrefix == <<"s", "p", "o", "t", "i", "f", "y", ":", "t", "r", "a", "c", "k", ":">>
LocalPrefix == <<"s", "p", "o", "t", "i", "f", "y", ":", "l", "o", "c", "a", "l", ":">>
PlaylistPrefix == <<"s", "p", "o", "t", "i", "f", "y", ":",
                    "p", "l", "a", "y", "l", "i", "s", "t", ":">>
PlaylistPath == <<"/", "p", "l", "a", "y", "l", "i", "s", "t", "/">>
PlaylistUrlPrefix == <<"h", "t", "t", "p", "s", ":", "/", "/", "o", "p", "e", "n", ".",
                       "s", "p", "o", "t", "i", "f", "y", ".", "c", "o", "m">> \o PlaylistPath
SiQuery == <<"?", "s", "i", "=", "x">>

AllAlNum(s) == \A i \in 1..Len(s) : s[i] \in AlNum

\* what a pattern ending in $ may leave unmatched: one trailing newline
DollarBody(s) == IF Len(s) > 0 /\ s[Len(s)] = "\n" THEN SubSeq(s, 1, Len(s) - 1) ELSE s

\* URI_RE.match(u): ^spotify:track:[0-9A-Za-z]{22}$
\* ($ also matches before one trailing newline)
URI_RE(u) ==
    LET body == DollarBody(u)
    IN  /\ Len(body) = Len(TrackPrefix) + IdLen
        /\ SubSeq(body, 1, Len(TrackPrefix)) = TrackPrefix
        /\ AllAlNum(SubSeq(body, Len(TrackPrefix) + 1, Len(body)))

\* value.strip()
RECURSIVE LStrip(_)
LStrip(s) == IF s # <<>> /\ Head(s) \in Whitespace THEN LStrip(Tail(s)) ELSE s
RECURSIVE RStrip(_)
RStrip(s) == IF s # <<>> /\ s[Len(s)] \in Whitespace
             THEN RStrip(SubSeq(s, 1, Len(s) - 1)) ELSE s
Strip(s) == RStrip(LStrip(s))

\* positions i where "/playlist/" followed by 22 alphanumerics starts
PathMatches(v) ==
    {i \in 1..Len(v) :
        /\ i + Len(PlaylistPath) + IdLen - 1 <= Len(v)
        /\ SubSeq(v, i, i + Len(PlaylistPath) - 1) = PlaylistPath
        /\ AllAlNum(SubSeq(v, i + Len(PlaylistPath), i + Len(PlaylistPath) + IdLen - 1))}

LeastOf(S) == CHOOSE x \in S : \A y \in S : x <= y

\* re.match(r"^[0-9A-Za-z]{22}$", value)
BareIdMatch(v) ==
    LET body == DollarBody(v)
    IN  Len(body) = IdLen /\ AllAlNum(body)

\* normalize_playlist_id with re.match in place of re.search for the URL form
normalize_playlist_id_anchored(value) ==
    IF value = <<>> THEN value
    ELSE LET v == Strip(value)
             b == DollarBody(v)
         IN  IF /\ Len(b) = Len(PlaylistPrefix) + IdLen
                /\ SubSeq(b, 1, Len(PlaylistPrefix)) = PlaylistPrefix
                /\ AllAlNum(SubSeq(b, Len(PlaylistPrefix) + 1, Len(b)))
             THEN SubSeq(b, Len(PlaylistPrefix) + 1, Len(b))
             ELSE IF 1 \in PathMatches(v)
             THEN SubSeq(v, 1 + Len(PlaylistPath), Len(PlaylistPath) + IdLen)
             ELSE v

normalize_playlist_id(value) ==
    IF value = <<>> THEN value
    ELSE LET v == Strip(value)
             b == DollarBody(v)
         IN  IF /\ Len(b) = Len(PlaylistPrefix) + IdLen
                /\ SubSeq(b, 1, Len(PlaylistPrefix)) = PlaylistPrefix
                /\ AllAlNum(SubSeq(b, Len(PlaylistPrefix) + 1, Len(b)))
             THEN SubSeq(b, Len(PlaylistPrefix) + 1, Len(b))
             ELSE IF PathMatches(v) # {}
             THEN LET i == LeastOf(PathMatches(v))
                  IN  SubSeq(v, i + Len(PlaylistPath), i + Len(PlaylistPath) + IdLen - 1)
             ELSE IF BareIdMatch(v) THEN v
             ELSE v

\* ";".join(parts), ", ".join(parts)
RECURSIVE Join(_, _)
Join(sep, parts) ==
    IF parts = <<>> THEN ""
    ELSE IF Len(parts) = 1 THEN parts[1]
    ELSE parts[1] \o sep \o Join(sep, Tail(parts))

-----------------------------------------------------------------------------
(* Availability classifier *)

\* is_unavailable_with_reason(track, user_country) -> (unavailable, reason)
\* user_country "" stands for None (user.get("country") absent)
\* Reasons that stops at the first rule that applies
ReasonsFirstOnly(track, user_country) ==
    IF track.null \/ track.id = None THEN <<"no_track_object">>
    ELSE IF track.is_playable = "false" THEN <<"is_playable=false">>
    ELSE IF track.restr # "" THEN <<"restriction:" \o track.restr>>
    ELSE IF user_country # "" /\ user_country \notin track.markets
    THEN <<"not_in_user_market">>
    ELSE <<>>

Reasons(track, user_country) ==
    IF track.null \/ track.id = None
    THEN <<"no_track_object">>
    ELSE (IF track.is_playable = "false" THEN <<"is_playable=false">> ELSE <<>>)
         \o (IF track.restr # "" THEN <<"restriction:" \o track.restr>> ELSE <<>>)
         \o (IF user_country # "" /\ user_country \notin track.markets
             THEN <<"not_in_user_market">> ELSE <<>>)

is_unavailable_with_reason(track, user_country) ==
    LET reasons == Reasons(track, user_country)
    IN  <<Len(reasons) > 0, Join(";", reasons)>>

\* spoti.py: is_unavailable(track, user_country=None) -> bool
is_unavailable(track, user_country) ==
    IF track.null \/ track.id = None THEN TRUE
    ELSE IF track.is_playable = "false" THEN TRUE
    ELSE IF track.restr \in {"market", "product", "explicit"} THEN TRUE
    ELSE IF user_country # "" /\ user_country \notin track.markets THEN TRUE
    ELSE FALSE

-----------------------------------------------------------------------------
(* The external catalog: what the Spotify Web API answers *)

Id22(c) == [i \in 1..IdLen |-> c]
TrackUri(c) == TrackPrefix \o Id22(c)

NullTrack ==
    [null |-> TRUE, id |-> None, uri |-> None, name |-> "", artists |-> <<>>,
     album |-> "", is_playable |-> "", restr |-> "", markets |-> {}]

Track(c, playable, restr, markets) ==
    [null |-> FALSE, id |-> Id22(c), uri |-> TrackUri(c), name |-> "song " \o c,
     artists |-> <<"x", "y">>, album |-> "lp", is_playable |-> playable,
     restr |-> restr, markets |-> markets]

tA == Track("a", "true", "", {"US", "DE"})         \* available everywhere
tB == Track("b", "false", "", {"US", "DE"})        \* not playable
tC == Track("c", "", "market", {"US", "DE"})       \* restricted
tD == Track("d", "true", "", {"DE"})               \* not licensed in US
\* a local file: no id, locator spotify:local:...
tL == [tA EXCEPT !.id = None, !.uri = LocalPrefix \o <<"m", "p", "3">>, !.name = "local"]
\* an unavailable track whose locator is missing
tU == [tB EXCEPT !.uri = None, !.name = "nouri"]

Item(n, track) == [added_at |-> n, track |-> track]

Playlist(c, name, items) == [id |-> Id22(c), name |-> name, items |-> items]

\* a long playlist, long enough for a second page of iter_playlist_items
LongItems(n) ==
    [i \in 1..n |-> Item(i, IF i = 1 THEN tB ELSE IF i = n THEN tC ELSE tA)]

ScanCatalogs ==
    << \* 1: two playlists sharing a track, a null track, a local file; saved tracks
       [country |-> "US",
        playlists |-> <<Playlist("P", "mix", <<Item(1, tB), Item(2, tA), Item(3, NullTrack)>>),
                        Playlist("Q", "old", <<Item(4, tB), Item(5, tL), Item(6, tC)>>)>>,
        liked |-> <<Item(7, tD), Item(8, tC)>>,
        new_pid |-> Id22("N")],
       \* 2: no country, one available track, an unavailable track without locator
       [country |-> "",
        playlists |-> <<Playlist("P", "mix", <<Item(1, tA)>>),
                        Playlist("Q", "old", <<>>)>>,
        liked |-> <<Item(2, tU), Item(3, tD)>>,
        new_pid |-> Id22("N")],
       \* 3: more than one page of playlist items and of saved tracks
       [country |-> "",
        playlists |-> <<Playlist("P", "long", LongItems(ItemsPageLimit + 1))>>,
        liked |-> LongItems(SavedPageLimit + 1),
        new_pid |-> Id22("N")] >>

\* letters of the tracks of a bulk playlist
BulkLetters == <<"b", "c", "d", "e", "f", "g", "h", "i">>

\* one playlist of n distinct tracks, all of them not playable
BulkCatalog(n) ==
    [country |-> "",
     playlists |-> <<Playlist("W", "bulk",
                              [i \in 1..n |-> Item(i, Track(BulkLetters[i], "false", "",
                                                            {"US"}))])>>,
     liked |-> <<>>,
     new_pid |-> Id22("N")]

\* letters of the playlists of a long playlist listing
ListLetters ==
    <<"0", "1", "2", "3", "4", "5", "6", "7", "8", "9",
      "a", "b", "c", "d", "e", "f", "g", "h", "i", "j", "k", "l", "m",
      "n", "o", "p", "q", "r", "s", "t", "u", "v", "w", "x", "y", "z",
      "A", "B", "C", "D", "E", "F", "G", "H", "I", "J", "K", "L", "M",
      "N", "O", "P", "Q", "R", "S", "T", "U", "V", "W", "X", "Y", "Z">>

\* more playlists than one page of iter_user_playlists holds; all are empty
\* but the last, which is on the second page and has two pages of items
ListCatalog ==
    [country |-> "",
     playlists |-> [k \in 1..(PlaylistPageLimit + 1) |->
                      Playlist(ListLetters[k], "list",
                               IF k = PlaylistPageLimit + 1
                               THEN LongItems(ItemsPageLimit + 1) ELSE <<>>)],
     liked |-> LongItems(SavedPageLimit + 1),
     new_pid |-> Id22("N")]

\* the scan catalogs, then the bulk catalogs of 0..MaxUris tracks, then the
\* long listing
Catalogs ==
    ScanCatalogs \o [k \in 1..(MaxUris + 1) |-> BulkCatalog(k - 1)] \o <<ListCatalog>>

Catalog == Catalogs[env.cat]

\* sp.current_user_playlists(limit, offset)
PlaylistsPage(limit, offset) ==
    [items |-> Slice(Catalog.playlists, offset, offset + limit),
     next |-> offset + limit < Len(Catalog.playlists)]

\* the items of the playlist with identifier pid (none when there is no such playlist)
ItemsOf(pid) ==
    IF \E i \in 1..Len(Catalog.playlists) : Catalog.playlists[i].id = pid
    THEN Catalog.playlists[CHOOSE i \in 1..Len(Catalog.playlists) :
                               Catalog.playlists[i].id = pid].items
    ELSE <<>>

\* sp.playlist_items(pid, limit, offset, fields)
ItemsPage(pid, limit, offset) ==
    [items |-> Slice(ItemsOf(pid), offset, offset + limit),
     next |-> offset + limit < Len(ItemsOf(pid))]

\* sp.current_user_saved_tracks(limit, offset, fields)
SavedPage(limit, offset) ==
    [items |-> Slice(Catalog.liked, offset, offset + limit),
     next |-> offset + limit < Len(Catalog.liked),
     total |-> Len(Catalog.liked)]

-----------------------------------------------------------------------------
(* Job table *)

\* uuid.uuid4().hex of the one job the model starts
job_id == "j1"
\* identifiers a client may ask about
JobIds == {job_id, "j0"}

NewJob ==
    [status |-> "running",
     progress |-> [processed |-> 0, total |-> 0],
     result |-> None,
     playlist_url |-> None,
     csv_rows |-> <<>>,
     bad_uri_rows |-> <<>>]

IsError(status) == status \notin {"running", "done"}
IsTerminal(status) == status # "running"

\* with JOBS_LOCK: a block that is entered and left within one step
LockFree == JOBS_LOCK = "free"

WorkerLocals ==
    [user_country |-> "", playlists |-> <<>>, yielded |-> 0, offset |-> 0,
     est_i |-> 1, total_est |-> 0, pl_i |-> 1, it_i |-> 1,
     seen_uris |-> {}, good_uris |-> <<>>,
     f_i |-> 1, filtered_uris |-> <<>>, skipped_invalid |-> 0,
     playlist_url |-> None, added_total |-> 0, result |-> None, exc |-> ""]

WriterLocals == [i |-> 0, sa |-> None, stack |-> <<>>]

\* yielded: items taken from the enumerators; offered: locators of unavailable
\* items, in scan order; creates / calls: playlist-create and add-items calls
\* made; failed: add-items calls that raised something other than a
\* SpotifyException; committed: locators of the successful add-items calls;
\* refused: the page requests of the enumerators that raised
NoHistory == [yielded |-> 0, offered |-> <<>>, creates |-> 0, calls |-> 0,
              failed |-> 0, committed |-> <<>>, missed |-> 0,
              fetched |-> <<>>, items |-> <<>>, refused |-> <<>>]

\* the history h after a page of src (of playlist number key) came back
Fetched(h, src, key, offset, page) ==
    [h EXCEPT !.fetched = Append(@, [src |-> src, key |-> key, offset |-> offset,
                                     n |-> Len(page.items), next |-> page.next])]

\* the history h after the request for the page of src at offset raised
Refused(h, src, key, offset) ==
    [h EXCEPT !.refused = Append(@, [src |-> src, key |-> key, offset |-> offset])]

StatusIdle == [pc |-> "idle", job_id |-> "", view |-> None, snap |-> None]
ExportIdle == [pc |-> "idle", job_id |-> "", which |-> "", i |-> 0, out |-> <<>>,
               term |-> FALSE]

NoParams == [only_pl_id |-> None, max_playlists |-> None, dry_run |-> FALSE,
             batch_size |-> BatchDefault]

Init ==
    /\ JOBS = [j \in {} |-> NewJob]
    /\ JOBS_LOCK = "free"
    /\ env \in [cat : 1..Len(ScanCatalogs), rejected : {{}}]
    /\ params = NoParams
    /\ pc = "idle"
    /\ w = WorkerLocals
    /\ wr = WriterLocals
    /\ st = StatusIdle
    /\ ex = ExportIdle
    /\ hist = NoHistory

-----------------------------------------------------------------------------
(* /start and start_job *)

\* request.args.get("only"): absent, a share URL of playlist P, the locator of
\* playlist Q, something that is no playlist
OnlyArgs == {None,
             PlaylistUrlPrefix \o Id22("P") \o SiQuery,
             <<" ">> \o PlaylistPrefix \o Id22("Q"),
             <<"n", "o", "p", "e">>}
\* request.args.get("max_playlists"): absent or an integer (int() takes any)
MaxPlaylistsArgs == {None, Some(1), Some(0), Some(-1)}
\* request.args.get("batch_size"): absent or an integer
BatchArgs == {None, Some(0), Some(2), Some(250)}

\* the requests the model sends to /start: a cap only without "only", a cap
\* below 1 only for a dry run, and a batch size only for a live run
StartArgs ==
    {a \in [only : OnlyArgs, max_playlists : MaxPlaylistsArgs, dry_run : BOOLEAN,
            batch_size : BatchArgs] :
        /\ a.only # None => a.max_playlists = None
        /\ a.max_playlists \in {Some(0), Some(-1)} => a.dry_run
        /\ a.dry_run => a.batch_size = None}

\* start_job that starts the thread and returns without having put the job in JOBS
start_job_unregistered(only_pl_id, max_playlists, dry_run, batch_size) ==
    /\ pc = "idle"
    /\ job_id \notin DOMAIN JOBS
    /\ params' = [only_pl_id |-> only_pl_id, max_playlists |-> max_playlists,
                  dry_run |-> dry_run, batch_size |-> batch_size]
    /\ pc' = "current_user"
    /\ UNCHANGED <<JOBS, JOBS_LOCK, env, w, wr, st, ex, hist>>

start_job(only_pl_id, max_playlists, dry_run, batch_size) ==
    /\ pc = "idle"
    /\ job_id \notin DOMAIN JOBS
    /\ LockFree
    /\ JOBS' = [j \in DOMAIN JOBS \cup {job_id} |-> IF j = job_id THEN NewJob ELSE JOBS[j]]
    /\ params' = [only_pl_id |-> only_pl_id, max_playlists |-> max_playlists,
                  dry_run |-> dry_run, batch_size |-> batch_size]
    /\ pc' = "current_user"
    /\ UNCHANGED <<JOBS_LOCK, env, w, wr, st, ex, hist>>

\* ClampBatch without the lower bound: min(100, int(...))
ClampBatchNoFloor(arg) ==
    Min(BatchMax, IF arg = None THEN BatchDefault ELSE arg[1])

\* batch_size = max(1, min(100, int(request.args.get("batch_size") or "100")))
ClampBatch(arg) ==
    Max(BatchMin, Min(BatchMax, IF arg = None THEN BatchDefault ELSE arg[1]))

start ==
    \E a \in StartArgs :
        start_job(a.only, a.max_playlists, a.dry_run, ClampBatch(a.batch_size))

-----------------------------------------------------------------------------
(* worker(): user, target playlists, estimate *)

\* an exception leaves the try block
Raise(msg) ==
    /\ pc' = "except"
    /\ w' = [w EXCEPT !.exc = msg]

AfterResolve(playlists) == IF Len(playlists) = 0 THEN "liked_total" ELSE "estimate"

CurrentUserOk ==
    /\ pc = "current_user"
    /\ w' = [w EXCEPT !.user_country = Catalog.country]
    /\ pc' = IF params.only_pl_id # None THEN "get_playlist" ELSE "list_playlists"
    /\ UNCHANGED <<JOBS, JOBS_LOCK, env, params, wr, st, ex, hist>>

CurrentUserFails ==
    /\ pc = "current_user"
    /\ Raise("current_user")
    /\ UNCHANGED <<JOBS, JOBS_LOCK, env, params, wr, st, ex, hist>>

\* pl = sp.playlist(normalize_playlist_id(only_pl_id), fields="id,name,owner(id)")
GetPlaylistOk ==
    /\ pc = "get_playlist"
    /\ LET norm == normalize_playlist_id(params.only_pl_id)
       IN  \E i \in 1..Len(Catalog.playlists) :
             /\ Catalog.playlists[i].id = norm
             /\ w' = [w EXCEPT !.playlists =
                         <<[id |-> norm, name |-> Catalog.playlists[i].name]>>]
    /\ pc' = "estimate"
    /\ UNCHANGED <<JOBS, JOBS_LOCK, env, params, wr, st, ex, hist>>

GetPlaylistFails ==
    /\ pc = "get_playlist"
    /\ Raise("playlist")
    /\ UNCHANGED <<JOBS, JOBS_LOCK, env, params, wr, st, ex, hist>>

\* how many items of a page iter_user_playlists yields before its cap returns
TakeCount(page_len, yielded, max_playlists) ==
    IF page_len = 0 THEN 0
    ELSE IF max_playlists # None /\ max_playlists[1] # 0
    THEN Max(1, Min(page_len, max_playlists[1] - yielded))
    ELSE page_len

CapReached(yielded, max_playlists) ==
    max_playlists # None /\ max_playlists[1] # 0 /\ yielded >= max_playlists[1]

\* one page of iter_user_playlists, collected by list(...)
iter_user_playlists ==
    /\ pc = "list_playlists"
    /\ LET page == PlaylistsPage(PlaylistPageLimit, w.offset)
           n == TakeCount(Len(page.items), w.yielded, params.max_playlists)
           got == w.playlists \o
                  [i \in 1..n |-> [id |-> page.items[i].id, name |-> page.items[i].name]]
           more == /\ ~(n > 0 /\ CapReached(w.yielded + n, params.max_playlists))
                   /\ page.next
       IN  /\ w' = [w EXCEPT !.playlists = got,
                             !.yielded = w.yielded + n,
                             !.offset = IF more THEN w.offset + PlaylistPageLimit ELSE 0]
           /\ pc' = IF more THEN "list_playlists" ELSE AfterResolve(got)
           /\ hist' = [Fetched(hist, "playlists", 0, w.offset, page) EXCEPT
                          !.items = @ \o [i \in 1..n |-> [src |-> "playlists", key |-> 0,
                                                          at |-> page.items[i].id]]]
    /\ UNCHANGED <<JOBS, JOBS_LOCK, env, params, wr, st, ex>>

\* sp.current_user_playlists(limit=limit, offset=offset) raises inside list(...)
ListPlaylistsFails ==
    /\ pc = "list_playlists"
    /\ Raise("current_user_playlists")
    /\ hist' = Refused(hist, "playlists", 0, w.offset)
    /\ UNCHANGED <<JOBS, JOBS_LOCK, env, params, wr, st, ex>>

\* playlist_total_tracks(sp, p["id"])
playlist_total_tracks(pid) == Len(ItemsOf(pid))

AfterEstimate(i) == IF i > Len(w.playlists) THEN "liked_total" ELSE "estimate"

EstimateOk ==
    /\ pc = "estimate"
    /\ w' = [w EXCEPT !.total_est = @ + playlist_total_tracks(w.playlists[w.est_i].id),
                      !.est_i = @ + 1]
    /\ pc' = AfterEstimate(w.est_i + 1)
    /\ UNCHANGED <<JOBS, JOBS_LOCK, env, params, wr, st, ex, hist>>

\* EstimateFails without the inner try: the exception leaves the worker's try block
EstimateFailsRaises ==
    /\ pc = "estimate"
    /\ Raise("playlist_items")
    /\ hist' = [hist EXCEPT !.missed = @ + Len(ItemsOf(w.playlists[w.est_i].id))]
    /\ UNCHANGED <<JOBS, JOBS_LOCK, env, params, wr, st, ex>>

\* except Exception: pass
EstimateFails ==
    /\ pc = "estimate"
    /\ w' = [w EXCEPT !.est_i = @ + 1]
    /\ pc' = AfterEstimate(w.est_i + 1)
    /\ hist' = [hist EXCEPT !.missed = @ + Len(ItemsOf(w.playlists[w.est_i].id))]
    /\ UNCHANGED <<JOBS, JOBS_LOCK, env, params, wr, st, ex>>

\* liked_page = sp.current_user_saved_tracks(limit=1)
LikedTotalOk ==
    /\ pc = "liked_total"
    /\ w' = [w EXCEPT !.total_est = @ + SavedPage(1, 0).total]
    /\ pc' = "set_total"
    /\ UNCHANGED <<JOBS, JOBS_LOCK, env, params, wr, st, ex, hist>>

LikedTotalFails ==
    /\ pc = "liked_total"
    /\ Raise("current_user_saved_tracks")
    /\ UNCHANGED <<JOBS, JOBS_LOCK, env, params, wr, st, ex, hist>>

\* with JOBS_LOCK: JOBS[job_id]["progress"]["total"] = total_est
SetTotal ==
    /\ pc = "set_total"
    /\ LockFree
    /\ JOBS' = [JOBS EXCEPT ![job_id].progress.total = w.total_est]
    /\ pc' = IF Len(w.playlists) = 0 THEN "liked_fetch" ELSE "scan_fetch"
    /\ UNCHANGED <<JOBS_LOCK, env, params, w, wr, st, ex, hist>>

-----------------------------------------------------------------------------
(* Callbacks of start_job; each body runs inside "with JOBS_LOCK" *)

\* bump_progress that raises the total when processed passes it
bump_progress_corrects(delta) ==
    /\ LockFree
    /\ JOBS' = [JOBS EXCEPT ![job_id].progress =
                   [processed |-> @.processed + delta,
                    total |-> Max(@.total, @.processed + delta)]]

\* def bump_progress(delta=1): JOBS[job_id]["progress"]["processed"] += delta
bump_progress(delta) ==
    /\ LockFree
    /\ JOBS' = [JOBS EXCEPT ![job_id].progress.processed = @ + delta]

add_csv_row(row) ==
    /\ LockFree
    /\ JOBS' = [JOBS EXCEPT ![job_id].csv_rows = Append(@, row)]

add_bad_uri_row(uri, note) ==
    /\ LockFree
    /\ JOBS' = [JOBS EXCEPT ![job_id].bad_uri_rows =
                   Append(@, [track_uri |-> uri, note |-> note])]

-----------------------------------------------------------------------------
(* worker(): scan of the playlists and of the saved tracks *)

\* the row appended for an unavailable item
Row(source, item, reason) ==
    LET t == item.track
    IN  [source |-> source,
         added_at |-> item.added_at,
         track_name |-> IF t.null THEN "" ELSE t.name,
         artists |-> IF t.null THEN "" ELSE Join(", ", t.artists),
         album |-> IF t.null THEN "" ELSE t.album,
         track_uri |-> IF t.null THEN None ELSE t.uri,
         track_id |-> IF t.null THEN None ELSE t.id,
         reason |-> reason]

\* uri = (t or {}).get("uri")
UriOf(track) == IF track.null THEN None ELSE track.uri

\* Offer without the membership test: if uri and URI_RE.match(uri): add it
OfferAgain(uri, seen_uris, good_uris) ==
    IF uri # None /\ URI_RE(uri)
    THEN [seen_uris |-> seen_uris \cup {uri}, good_uris |-> Append(good_uris, uri)]
    ELSE [seen_uris |-> seen_uris, good_uris |-> good_uris]

\* if uri and URI_RE.match(uri) and uri not in seen_uris: add it
Offer(uri, seen_uris, good_uris) ==
    IF uri # None /\ URI_RE(uri) /\ uri \notin seen_uris
    THEN [seen_uris |-> seen_uris \cup {uri}, good_uris |-> Append(good_uris, uri)]
    ELSE [seen_uris |-> seen_uris, good_uris |-> good_uris]

\* AfterFilter that takes the live branch whatever dry_run is
AfterFilterLive(i) ==
    IF i <= Len(w.good_uris) THEN "filter" ELSE "create"

AfterFilter(i) ==
    IF i <= Len(w.good_uris) THEN "filter"
    ELSE IF params.dry_run THEN "dry_summary" ELSE "create"

\* ScanAdvance with the next offset one past the page: offset += limit + 1
ScanAdvanceSkips(page, i) ==
    IF i <= Len(page.items)
    THEN [pc |-> "scan_item", pl_i |-> w.pl_i, offset |-> w.offset, it_i |-> i]
    ELSE IF page.next
    THEN [pc |-> "scan_fetch", pl_i |-> w.pl_i, offset |-> w.offset + ItemsPageLimit + 1,
          it_i |-> 1]
    ELSE [pc |-> IF w.pl_i < Len(w.playlists) THEN "scan_fetch" ELSE "liked_fetch",
          pl_i |-> w.pl_i + 1, offset |-> 0, it_i |-> 1]

\* where the playlist scan stands once item i of the fetched page is next
ScanAdvance(page, i) ==
    IF i <= Len(page.items)
    THEN [pc |-> "scan_item", pl_i |-> w.pl_i, offset |-> w.offset, it_i |-> i]
    ELSE IF page.next
    THEN [pc |-> "scan_fetch", pl_i |-> w.pl_i, offset |-> w.offset + ItemsPageLimit,
          it_i |-> 1]
    ELSE [pc |-> IF w.pl_i < Len(w.playlists) THEN "scan_fetch" ELSE "liked_fetch",
          pl_i |-> w.pl_i + 1, offset |-> 0, it_i |-> 1]

\* where the saved-tracks scan stands once item i of the fetched page is next
LikedAdvance(page, i) ==
    IF i <= Len(page.items)
    THEN [pc |-> "liked_item", pl_i |-> w.pl_i, offset |-> w.offset, it_i |-> i]
    ELSE IF page.next
    THEN [pc |-> "liked_fetch", pl_i |-> w.pl_i, offset |-> w.offset + SavedPageLimit,
          it_i |-> 1]
    ELSE [pc |-> AfterFilter(1), pl_i |-> w.pl_i, offset |-> 0, it_i |-> 1]

Moved(wl, adv) == [wl EXCEPT !.pl_i = adv.pl_i, !.offset = adv.offset, !.it_i = adv.it_i]

CurPlaylist == w.playlists[w.pl_i]
\* the page iter_playlist_items is yielding from
iter_playlist_items == ItemsPage(CurPlaylist.id, ItemsPageLimit, w.offset)
CurSavedPage == SavedPage(SavedPageLimit, w.offset)

Unavailable(item) == is_unavailable_with_reason(item.track, w.user_country)[1]
ReasonOf(item) == is_unavailable_with_reason(item.track, w.user_country)[2]

\* the history h after the scan loop was handed item
Yielded(h, item) ==
    [h EXCEPT !.yielded = @ + 1,
              !.items = Append(@, [src |-> IF pc = "scan_item" THEN "items" ELSE "saved",
                                   key |-> IF pc = "scan_item" THEN w.pl_i ELSE 0,
                                   at |-> item.added_at])]

\* RowAndOffer that writes a row only for an item that has a track object
RowAndOfferSkipsNull(source, item) ==
    LET uri == UriOf(item.track)
        o == Offer(uri, w.seen_uris, w.good_uris)
    IN  /\ IF item.track.null
           THEN LockFree /\ UNCHANGED JOBS
           ELSE add_csv_row(Row(source, item, ReasonOf(item)))
        /\ w' = [w EXCEPT !.seen_uris = o.seen_uris, !.good_uris = o.good_uris]
        /\ hist' = [Yielded(hist, item) EXCEPT
                       !.offered = IF uri # None THEN Append(@, uri) ELSE @]

\* the item is unavailable: its row, then its locator
RowAndOffer(source, item) ==
    LET uri == UriOf(item.track)
        o == Offer(uri, w.seen_uris, w.good_uris)
    IN  /\ add_csv_row(Row(source, item, ReasonOf(item)))
        /\ w' = [w EXCEPT !.seen_uris = o.seen_uris, !.good_uris = o.good_uris]
        /\ hist' = [Yielded(hist, item) EXCEPT
                       !.offered = IF uri # None THEN Append(@, uri) ELSE @]

FetchItemsOk ==
    /\ pc = "scan_fetch"
    /\ LET adv == ScanAdvance(iter_playlist_items, 1)
       IN  pc' = adv.pc /\ w' = Moved(w, adv)
    /\ hist' = Fetched(hist, "items", w.pl_i, w.offset, iter_playlist_items)
    /\ UNCHANGED <<JOBS, JOBS_LOCK, env, params, wr, st, ex>>

\* FetchItemsFails that asks for the same page once more before giving up
FetchItemsRetries ==
    /\ pc = "scan_fetch"
    /\ hist' = Refused(hist, "items", w.pl_i, w.offset)
    /\ IF hist.refused = <<>>
       THEN UNCHANGED <<pc, w>>
       ELSE Raise("playlist_items")
    /\ UNCHANGED <<JOBS, JOBS_LOCK, env, params, wr, st, ex>>

\* sp.playlist_items(pid, ..., offset=offset) raises inside the generator
FetchItemsFails ==
    /\ pc = "scan_fetch"
    /\ Raise("playlist_items")
    /\ hist' = Refused(hist, "items", w.pl_i, w.offset)
    /\ UNCHANGED <<JOBS, JOBS_LOCK, env, params, wr, st, ex>>

ScanRow ==
    /\ pc = "scan_item"
    /\ Unavailable(iter_playlist_items.items[w.it_i])
    /\ RowAndOffer(CurPlaylist.name, iter_playlist_items.items[w.it_i])
    /\ pc' = "scan_bump"
    /\ UNCHANGED <<JOBS_LOCK, env, params, wr, st, ex>>

\* ScanSkip without bump_progress(): an available item is passed over
ScanSkipNoBump ==
    /\ pc = "scan_item"
    /\ ~Unavailable(iter_playlist_items.items[w.it_i])
    /\ LET adv == ScanAdvance(iter_playlist_items, w.it_i + 1)
       IN  pc' = adv.pc /\ w' = Moved(w, adv)
    /\ hist' = Yielded(hist, iter_playlist_items.items[w.it_i])
    /\ UNCHANGED <<JOBS, JOBS_LOCK, env, params, wr, st, ex>>

\* an available item: only bump_progress()
ScanSkip ==
    /\ pc = "scan_item"
    /\ ~Unavailable(iter_playlist_items.items[w.it_i])
    /\ bump_progress(1)
    /\ LET adv == ScanAdvance(iter_playlist_items, w.it_i + 1)
       IN  pc' = adv.pc /\ w' = Moved(w, adv)
    /\ hist' = Yielded(hist, iter_playlist_items.items[w.it_i])
    /\ UNCHANGED <<JOBS_LOCK, env, params, wr, st, ex>>

ScanBump ==
    /\ pc = "scan_bump"
    /\ bump_progress(1)
    /\ LET adv == ScanAdvance(iter_playlist_items, w.it_i + 1)
       IN  pc' = adv.pc /\ w' = Moved(w, adv)
    /\ UNCHANGED <<JOBS_LOCK, env, params, wr, st, ex, hist>>

FetchSavedOk ==
    /\ pc = "liked_fetch"
    /\ LET adv == LikedAdvance(CurSavedPage, 1)
       IN  pc' = adv.pc /\ w' = Moved(w, adv)
    /\ hist' = Fetched(hist, "saved", 0, w.offset, CurSavedPage)
    /\ UNCHANGED <<JOBS, JOBS_LOCK, env, params, wr, st, ex>>

\* sp.current_user_saved_tracks(limit=limit, offset=offset, ...) raises
FetchSavedFails ==
    /\ pc = "liked_fetch"
    /\ Raise("current_user_saved_tracks")
    /\ hist' = Refused(hist, "saved", 0, w.offset)
    /\ UNCHANGED <<JOBS, JOBS_LOCK, env, params, wr, st, ex>>

LikedRow ==
    /\ pc = "liked_item"
    /\ Unavailable(CurSavedPage.items[w.it_i])
    /\ RowAndOffer("Liked Songs", CurSavedPage.items[w.it_i])
    /\ pc' = "liked_bump"
    /\ UNCHANGED <<JOBS_LOCK, env, params, wr, st, ex>>

LikedSkip ==
    /\ pc = "liked_item"
    /\ ~Unavailable(CurSavedPage.items[w.it_i])
    /\ bump_progress(1)
    /\ LET adv == LikedAdvance(CurSavedPage, w.it_i + 1)
       IN  pc' = adv.pc /\ w' = Moved(w, adv)
    /\ hist' = Yielded(hist, CurSavedPage.items[w.it_i])
    /\ UNCHANGED <<JOBS_LOCK, env, params, wr, st, ex>>

LikedBump ==
    /\ pc = "liked_bump"
    /\ bump_progress(1)
    /\ LET adv == LikedAdvance(CurSavedPage, w.it_i + 1)
       IN  pc' = adv.pc /\ w' = Moved(w, adv)
    /\ UNCHANGED <<JOBS_LOCK, env, params, wr, st, ex, hist>>

-----------------------------------------------------------------------------
(* worker(): second format filter, summary of a dry run *)

\* for u in good_uris: keep it if URI_RE.match(u), else record it as invalid
FilterStep ==
    /\ pc = "filter"
    /\ LET u == w.good_uris[w.f_i]
       IN  IF URI_RE(u)
           THEN /\ w' = [w EXCEPT !.filtered_uris = Append(@, u), !.f_i = @ + 1]
                /\ UNCHANGED JOBS
           ELSE /\ add_bad_uri_row(u, "invalid_uri_format")
                /\ w' = [w EXCEPT !.skipped_invalid = @ + 1, !.f_i = @ + 1]
    /\ pc' = AfterFilter(w.f_i + 1)
    /\ UNCHANGED <<JOBS_LOCK, env, params, wr, st, ex, hist>>

\* the dry-run result text, by the numbers it prints;
\* len(JOBS[job_id]['csv_rows']) is read outside the lock
DrySummary ==
    /\ pc = "dry_summary"
    /\ w' = [w EXCEPT !.result =
                Some([kind |-> "dry", writable |-> Len(w.filtered_uris),
                      skipped |-> w.skipped_invalid,
                      rows |-> Len(JOBS[job_id].csv_rows)])]
    /\ pc' = "finish"
    /\ UNCHANGED <<JOBS, JOBS_LOCK, env, params, wr, st, ex, hist>>

-----------------------------------------------------------------------------
(* worker(): live run -- create the playlist, write loop, safe_add_items *)

\* the message of the SpotifyException raised for a rejected chunk
RejectMsg == "Unsupported URL"

\* the provider rejects a chunk that holds a locator it cannot add
Rejects(chunk) == Range(chunk) \cap env.rejected # {}

CreatePlaylistOk ==
    /\ pc = "create"
    /\ w' = [w EXCEPT !.playlist_url = Some(PlaylistUrlPrefix \o Catalog.new_pid)]
    /\ \E R \in SUBSET Range(w.filtered_uris) : env' = [env EXCEPT !.rejected = R]
    /\ hist' = [hist EXCEPT !.creates = @ + 1]
    /\ pc' = "write"
    /\ UNCHANGED <<JOBS, JOBS_LOCK, params, wr, st, ex>>

CreatePlaylistFails ==
    /\ pc = "create"
    /\ Raise("user_playlist_create")
    /\ hist' = [hist EXCEPT !.creates = @ + 1]
    /\ UNCHANGED <<JOBS, JOBS_LOCK, env, params, wr, st, ex>>

\* while i < len(filtered_uris): added_total += safe_add_items(sp, new_pid,
\*     filtered_uris[i:i+batch_size], add_bad_uri_row); i += batch_size
\* safe_add_items starts with its first slice uris[0:100] handed to add_chunk
WriteBatch ==
    /\ pc = "write"
    /\ IF wr.i < Len(w.filtered_uris)
       THEN LET batch == Slice(w.filtered_uris, wr.i, wr.i + params.batch_size)
            IN  /\ wr' = [wr EXCEPT !.sa = Some([uris |-> batch, i |-> 0, added |-> 0]),
                                    !.stack = <<Slice(batch, 0, AddItemsLimit)>>]
                /\ pc' = "add_chunk"
       ELSE /\ wr' = wr
            /\ pc' = "summary"
    /\ UNCHANGED <<JOBS, JOBS_LOCK, env, params, w, st, ex, hist>>

\* add_chunk returned with `gained` more locators added: the caller goes on
\* (the second half of a split, the next slice of safe_add_items, or the return
\* of safe_add_items to the write loop)
Returned(gained) ==
    LET sa == [wr.sa[1] EXCEPT !.added = @ + gained]
        rest == Tail(wr.stack)
    IN  IF rest # <<>>
        THEN [pc |-> "add_chunk", added_total |-> w.added_total,
              wr |-> [wr EXCEPT !.sa = Some(sa), !.stack = rest]]
        ELSE IF sa.i + AddItemsLimit < Len(sa.uris)
        THEN [pc |-> "add_chunk", added_total |-> w.added_total,
              wr |-> [wr EXCEPT !.sa = Some([sa EXCEPT !.i = @ + AddItemsLimit]),
                                !.stack = <<Slice(sa.uris, sa.i + AddItemsLimit,
                                                  sa.i + 2 * AddItemsLimit)>>]]
        ELSE [pc |-> "write", added_total |-> w.added_total + sa.added,
              wr |-> [i |-> wr.i + params.batch_size, sa |-> None, stack |-> <<>>]]

Return(gained) ==
    LET r == Returned(gained)
    IN  /\ pc' = r.pc
        /\ wr' = r.wr
        /\ w' = [w EXCEPT !.added_total = r.added_total]

\* sp.playlist_add_items(playlist_id, chunk) succeeds (an empty chunk returns at once)
AddChunkOk ==
    /\ pc = "add_chunk"
    /\ LET chunk == Head(wr.stack)
       IN  /\ ~Rejects(chunk)
           /\ Return(Len(chunk))
           /\ hist' = [hist EXCEPT !.calls = @ + 1, !.committed = @ \o chunk]
    /\ UNCHANGED <<JOBS, JOBS_LOCK, env, params, st, ex>>

\* AddChunkBad that lets the failure of a single locator escape instead of recording it
AddChunkBadRaises ==
    /\ pc = "add_chunk"
    /\ Rejects(Head(wr.stack))
    /\ Len(Head(wr.stack)) = 1
    /\ Raise("playlist_add_items")
    /\ hist' = [hist EXCEPT !.calls = @ + 1]
    /\ UNCHANGED <<JOBS, JOBS_LOCK, env, params, wr, st, ex>>

\* except SpotifyException, len(chunk) == 1: record_bad_uri and give up on it
AddChunkBad ==
    /\ pc = "add_chunk"
    /\ LET chunk == Head(wr.stack)
       IN  /\ Rejects(chunk)
           /\ Len(chunk) = 1
           /\ add_bad_uri_row(chunk[1], "add_failed:" \o RejectMsg)
           /\ Return(0)
    /\ hist' = [hist EXCEPT !.calls = @ + 1]
    /\ UNCHANGED <<JOBS_LOCK, env, params, st, ex>>

\* AddChunkSplit with the second half cut one too far: add_chunk(chunk[mid+1:])
AddChunkSplitSkipsMid ==
    /\ pc = "add_chunk"
    /\ LET chunk == Head(wr.stack)
           mid == Len(chunk) \div 2
       IN  /\ Rejects(chunk)
           /\ Len(chunk) # 1
           /\ wr' = [wr EXCEPT !.stack =
                        <<Slice(chunk, 0, mid)>>
                        \o (IF mid + 1 < Len(chunk)
                            THEN <<Slice(chunk, mid + 1, Len(chunk))>> ELSE <<>>)
                        \o Tail(wr.stack)]
    /\ hist' = [hist EXCEPT !.calls = @ + 1]
    /\ UNCHANGED <<JOBS, JOBS_LOCK, env, params, pc, w, st, ex>>

\* except SpotifyException, longer chunk: add_chunk(chunk[:mid]); add_chunk(chunk[mid:])
\* AddChunkSplit with the split point at the end: the chunk itself and nothing
AddChunkSplitWhole ==
    /\ pc = "add_chunk"
    /\ LET chunk == Head(wr.stack)
           mid == Len(chunk)
       IN  /\ Rejects(chunk)
           /\ Len(chunk) # 1
           /\ wr' = [wr EXCEPT !.stack = <<Slice(chunk, 0, mid), Slice(chunk, mid, Len(chunk))>>
                                         \o Tail(wr.stack)]
    /\ hist' = [hist EXCEPT !.calls = @ + 1]
    /\ UNCHANGED <<JOBS, JOBS_LOCK, env, params, pc, w, st, ex>>

\* AddChunkSplit that takes the second half first: add_chunk(chunk[mid:]); add_chunk(chunk[:mid])
AddChunkSplitRightFirst ==
    /\ pc = "add_chunk"
    /\ LET chunk == Head(wr.stack)
           mid == Len(chunk) \div 2
       IN  /\ Rejects(chunk)
           /\ Len(chunk) # 1
           /\ wr' = [wr EXCEPT !.stack = <<Slice(chunk, mid, Len(chunk)), Slice(chunk, 0, mid)>>
                                         \o Tail(wr.stack)]
    /\ hist' = [hist EXCEPT !.calls = @ + 1]
    /\ UNCHANGED <<JOBS, JOBS_LOCK, env, params, pc, w, st, ex>>

AddChunkSplit ==
    /\ pc = "add_chunk"
    /\ LET chunk == Head(wr.stack)
           mid == Len(chunk) \div 2
       IN  /\ Rejects(chunk)
           /\ Len(chunk) # 1
           /\ wr' = [wr EXCEPT !.stack = <<Slice(chunk, 0, mid), Slice(chunk, mid, Len(chunk))>>
                                         \o Tail(wr.stack)]
    /\ hist' = [hist EXCEPT !.calls = @ + 1]
    /\ UNCHANGED <<JOBS, JOBS_LOCK, env, params, pc, w, st, ex>>

\* the call raises something that is no SpotifyException (a timeout, a reset)
AddChunkFails ==
    /\ pc = "add_chunk"
    /\ Raise("playlist_add_items")
    /\ hist' = [hist EXCEPT !.calls = @ + 1, !.failed = @ + 1]
    /\ UNCHANGED <<JOBS, JOBS_LOCK, env, params, wr, st, ex>>

\* the live result text, by the numbers it prints; both list lengths are read
\* from JOBS[job_id] outside the lock
LiveSummary ==
    /\ pc = "summary"
    /\ w' = [w EXCEPT !.result =
                Some([kind |-> "live", url |-> w.playlist_url, added |-> w.added_total,
                      skipped |-> w.skipped_invalid,
                      bad |-> Len(JOBS[job_id].bad_uri_rows),
                      rows |-> Len(JOBS[job_id].csv_rows)])]
    /\ pc' = "finish"
    /\ UNCHANGED <<JOBS, JOBS_LOCK, env, params, wr, st, ex, hist>>

-----------------------------------------------------------------------------
(* worker(): the final block and the exception handler *)

\* Acquire that does not wait for the lock to be free
AcquireNoWait(who) == JOBS_LOCK' = who

Acquire(who) == JOBS_LOCK = "free" /\ JOBS_LOCK' = who
Release(who) == JOBS_LOCK' = "free"

\* with JOBS_LOCK: JOBS[job_id]["playlist_url"] = playlist_url
FinishUrl ==
    /\ pc = "finish"
    /\ Acquire("worker")
    /\ JOBS' = [JOBS EXCEPT ![job_id].playlist_url = w.playlist_url]
    /\ pc' = "finish_result"
    /\ UNCHANGED <<env, params, w, wr, st, ex, hist>>

\*                 JOBS[job_id]["result"] = result
FinishResult ==
    /\ pc = "finish_result"
    /\ JOBS' = [JOBS EXCEPT ![job_id].result = w.result]
    /\ pc' = "finish_status"
    /\ UNCHANGED <<JOBS_LOCK, env, params, w, wr, st, ex, hist>>

\* FinishStatus followed by a statement of the try block that raises
FinishStatusThenRaises ==
    /\ pc = "finish_status"
    /\ JOBS' = [JOBS EXCEPT ![job_id].status = "done"]
    /\ Release("worker")
    /\ Raise("after_done")
    /\ UNCHANGED <<env, params, wr, st, ex, hist>>

\*                 JOBS[job_id]["status"] = "done"
FinishStatus ==
    /\ pc = "finish_status"
    /\ JOBS' = [JOBS EXCEPT ![job_id].status = "done"]
    /\ Release("worker")
    /\ pc' = "exit"
    /\ UNCHANGED <<env, params, w, wr, st, ex, hist>>

\* Except that replaces the job record by a new one carrying the error
ExceptDropsRows ==
    /\ pc = "except"
    /\ LockFree
    /\ JOBS' = [JOBS EXCEPT ![job_id] = [NewJob EXCEPT !.status = "error: " \o w.exc]]
    /\ pc' = "exit"
    /\ UNCHANGED <<JOBS_LOCK, env, params, w, wr, st, ex, hist>>

\* except Exception as e: with JOBS_LOCK: JOBS[job_id]["status"] = f"error: {e}"
Except ==
    /\ pc = "except"
    /\ LockFree
    /\ JOBS' = [JOBS EXCEPT ![job_id].status = "error: " \o w.exc]
    /\ pc' = "exit"
    /\ UNCHANGED <<JOBS_LOCK, env, params, w, wr, st, ex, hist>>

-----------------------------------------------------------------------------
(* /status/<job_id> *)
(* The model serves one request at a time: requests meet each other only   *)
(* at JOBS_LOCK, and none of them writes a job.                            *)

NoView == [status |-> "", running |-> FALSE, processed |-> 0, total |-> 0,
           result |-> None, playlist_url |-> None]

\* the fields of a job that the status page shows
ViewOf(job) ==
    [status |-> job.status, running |-> job.status = "running",
     processed |-> job.progress.processed, total |-> job.progress.total,
     result |-> job.result, playlist_url |-> job.playlist_url]

\* with JOBS_LOCK: the request enters the block
StatusBegin ==
    /\ st.pc = "idle"
    /\ ex.pc = "idle"
    /\ Acquire("status")
    /\ \E j \in JobIds :
         st' = [pc |-> "lookup", job_id |-> j, view |-> Some(NoView),
                snap |-> IF j \in DOMAIN JOBS THEN Some(ViewOf(JOBS[j])) ELSE None]
    /\ UNCHANGED <<JOBS, env, params, pc, w, wr, ex, hist>>

\* job = JOBS.get(job_id); if not job: abort(404)
StatusNotFound ==
    /\ st.pc = "lookup"
    /\ st.job_id \notin DOMAIN JOBS
    /\ Release("status")
    /\ st' = StatusIdle
    /\ UNCHANGED <<JOBS, env, params, pc, w, wr, ex, hist>>

\* status_str = job["status"]; running = status_str == "running"
StatusReadStatus ==
    /\ st.pc = "lookup"
    /\ st.job_id \in DOMAIN JOBS
    /\ st' = [st EXCEPT !.pc = "read_progress",
                        !.view = Some([@[1] EXCEPT
                                         !.status = JOBS[st.job_id].status,
                                         !.running = JOBS[st.job_id].status = "running"])]
    /\ UNCHANGED <<JOBS, JOBS_LOCK, env, params, pc, w, wr, ex, hist>>

\* processed = job["progress"]["processed"]; total = job["progress"]["total"]
StatusReadProgress ==
    /\ st.pc = "read_progress"
    /\ st' = [st EXCEPT !.pc = "read_result",
                        !.view = Some([@[1] EXCEPT
                                         !.processed = JOBS[st.job_id].progress.processed,
                                         !.total = JOBS[st.job_id].progress.total])]
    /\ UNCHANGED <<JOBS, JOBS_LOCK, env, params, pc, w, wr, ex, hist>>

\* result = job["result"]; playlist_url = job["playlist_url"]
StatusReadResult ==
    /\ st.pc = "read_result"
    /\ st' = [st EXCEPT !.pc = "render",
                        !.view = Some([@[1] EXCEPT
                                         !.result = JOBS[st.job_id].result,
                                         !.playlist_url = JOBS[st.job_id].playlist_url])]
    /\ UNCHANGED <<JOBS, JOBS_LOCK, env, params, pc, w, wr, ex, hist>>

\* the block ends; the page is rendered from the values read and sent
StatusRespond ==
    /\ st.pc = "render"
    /\ Release("status")
    /\ st' = StatusIdle
    /\ UNCHANGED <<JOBS, env, params, pc, w, wr, ex, hist>>

status == \/ StatusBegin \/ StatusNotFound \/ StatusReadStatus
          \/ StatusReadProgress \/ StatusReadResult \/ StatusRespond

-----------------------------------------------------------------------------
(* /unavailable/<job_id>.csv and /baduris/<job_id>.csv *)

Exports == {"csv_rows", "bad_uri_rows"}

\* with JOBS_LOCK: the request enters the block
ExportBegin ==
    /\ ex.pc = "idle"
    /\ st.pc = "idle"
    /\ Acquire("export")
    /\ \E j \in JobIds, which \in Exports :
         ex' = [ExportIdle EXCEPT !.pc = "lookup", !.job_id = j, !.which = which]
    /\ UNCHANGED <<JOBS, env, params, pc, w, wr, st, hist>>

\* job = JOBS.get(job_id); if not job: abort(404)
ExportNotFound ==
    /\ ex.pc = "lookup"
    /\ ex.job_id \notin DOMAIN JOBS
    /\ Release("export")
    /\ ex' = ExportIdle
    /\ UNCHANGED <<JOBS, env, params, pc, w, wr, st, hist>>

\* rows = job.get("csv_rows") or []: the job's own list, not a copy; the block ends
ExportFound ==
    /\ ex.pc = "lookup"
    /\ ex.job_id \in DOMAIN JOBS
    /\ Release("export")
    /\ ex' = [ex EXCEPT !.pc = "rows", !.term = IsTerminal(JOBS[ex.job_id].status)]
    /\ UNCHANGED <<JOBS, env, params, pc, w, wr, st, hist>>

\* the list the export iterates, as it is now
ExportList == IF ex.which = "csv_rows" THEN JOBS[ex.job_id].csv_rows
              ELSE JOBS[ex.job_id].bad_uri_rows

\* w.writerow({k: r.get(k, "") for k in cols}) / w.writerows(rows): the next row
ExportRow ==
    /\ ex.pc = "rows"
    /\ ex.i < Len(ExportList)
    /\ ex' = [ex EXCEPT !.i = @ + 1,
                        !.out = Append(@, [k \in DOMAIN ExportList[ex.i + 1] |->
                                              ExportList[ex.i + 1][k]])]
    /\ UNCHANGED <<JOBS, JOBS_LOCK, env, params, pc, w, wr, st, hist>>

\* the iteration is over: ex.out is the body of the response, which is sent
ExportRespond ==
    /\ ex.pc = "rows"
    /\ ex.i >= Len(ExportList)
    /\ ex' = ExportIdle
    /\ UNCHANGED <<JOBS, JOBS_LOCK, env, params, pc, w, wr, st, hist>>

csv_export == \/ ExportBegin \/ ExportNotFound \/ ExportFound \/ ExportRow \/ ExportRespond

-----------------------------------------------------------------------------
(* The program *)

worker ==
    \/ CurrentUserOk \/ CurrentUserFails
    \/ GetPlaylistOk \/ GetPlaylistFails
    \/ iter_user_playlists \/ ListPlaylistsFails
    \/ EstimateOk \/ EstimateFails
    \/ LikedTotalOk \/ LikedTotalFails \/ SetTotal
    \/ FetchItemsOk \/ FetchItemsFails \/ ScanRow \/ ScanSkip \/ ScanBump
    \/ FetchSavedOk \/ FetchSavedFails \/ LikedRow \/ LikedSkip \/ LikedBump
    \/ FilterStep \/ DrySummary
    \/ CreatePlaylistOk \/ CreatePlaylistFails
    \/ WriteBatch \/ AddChunkOk \/ AddChunkBad \/ AddChunkSplit \/ AddChunkFails
    \/ LiveSummary
    \/ FinishUrl \/ FinishResult \/ FinishStatus
    \/ Except

Next == start \/ worker \/ status \/ csv_export

Spec == Init /\ [][Next]_vars

-----------------------------------------------------------------------------
(* One job over the catalogs whose listings have more than one page *)

\* catalog 3 (a playlist and saved tracks of two pages) and the long listing
InitPages ==
    /\ Init!1 /\ Init!2 /\ Init!4 /\ Init!5 /\ Init!6 /\ Init!7 /\ Init!8 /\ Init!9
       /\ Init!10
    /\ env \in [cat : {3, Len(Catalogs)}, rejected : {{}}]

\* the job alone: requests read a job and never write one
NextJob == start \/ worker

SpecPages == InitPages /\ [][NextJob]_vars

\* The job with status requests at its side. The worker waits for nothing but
\* JOBS_LOCK; the status request holds the lock over its whole block, as an
\* export does over its lookup, and stands for both here.
NextLive == start \/ worker \/ status

\* The worker is a thread of its own and every call it makes returns or fails,
\* so it takes its next step whenever it can; a step that needs JOBS_LOCK can
\* be taken each time the lock is free, and the lock comes free again and again
\* because a request that holds it runs to its end.
Fairness == SF_vars(worker) /\ WF_vars(status)

SpecFair == Init /\ [][NextLive]_vars /\ Fairness

-----------------------------------------------------------------------------
(* The write phase on its own: the worker stands before user_playlist_create *)
(* after a live job has scanned a bulk catalog, so that the candidate list   *)
(* is any list of up to MaxUris distinct valid locators.                     *)

BulkItems(n) == BulkCatalog(n).playlists[1].items
BulkUris(n) == [i \in 1..n |-> BulkItems(n)[i].track.uri]

InitWrite ==
    \E n \in 0..MaxUris, bs \in BatchArgs :
        /\ env = [cat |-> Len(ScanCatalogs) + n + 1, rejected |-> {}]
        /\ params = [only_pl_id |-> None, max_playlists |-> None, dry_run |-> FALSE,
                     batch_size |-> ClampBatch(bs)]
        /\ JOBS = [j \in {job_id} |->
                     [NewJob EXCEPT
                        !.progress = [processed |-> n, total |-> n],
                        !.csv_rows = [i \in 1..n |->
                                        Row("bulk", BulkItems(n)[i], "is_playable=false")]]]
        /\ JOBS_LOCK = "free"
        /\ pc = "create"
        /\ w = [WorkerLocals EXCEPT
                  !.playlists = <<[id |-> Id22("W"), name |-> "bulk"]>>,
                  !.yielded = 1, !.est_i = 2, !.total_est = n, !.pl_i = 2,
                  !.seen_uris = Range(BulkUris(n)), !.good_uris = BulkUris(n),
                  !.f_i = n + 1, !.filtered_uris = BulkUris(n)]
        /\ wr = WriterLocals
        /\ st = StatusIdle
        /\ ex = ExportIdle
        /\ hist = [NoHistory EXCEPT
                     !.yielded = n, !.offered = BulkUris(n),
                     !.fetched = <<[src |-> "playlists", key |-> 0, offset |-> 0,
                                    n |-> 1, next |-> FALSE],
                                   [src |-> "items", key |-> 1, offset |-> 0,
                                    n |-> n, next |-> FALSE],
                                   [src |-> "saved", key |-> 0, offset |-> 0,
                                    n |-> 0, next |-> FALSE]>>,
                     !.items = <<[src |-> "playlists", key |-> 0, at |-> Id22("W")]>> \o
                               [i \in 1..n |-> [src |-> "items", key |-> 1, at |-> i]]]

NextWrite ==
    \/ CreatePlaylistOk \/ CreatePlaylistFails
    \/ WriteBatch \/ AddChunkOk \/ AddChunkBad \/ AddChunkSplit \/ AddChunkFails
    \/ LiveSummary
    \/ FinishUrl \/ FinishResult \/ FinishStatus
    \/ Except

SpecWrite == InitWrite /\ [][NextWrite]_vars

\* the same catalogs under the whole program, to see that InitWrite is reached
InitBulk ==
    /\ Init!1 /\ Init!2 /\ Init!4 /\ Init!5 /\ Init!6 /\ Init!7 /\ Init!8 /\ Init!9
       /\ Init!10
    /\ env \in [cat : (Len(ScanCatalogs) + 1)..(Len(Catalogs) - 1), rejected : {{}}]

SpecBulk == InitBulk /\ [][Next]_vars

-----------------------------------------------------------------------------
(* is_unavailable_with_reason called on its own: the arguments are drawn    *)
(* by the initial state, the one step is the call                           *)

\* tracks as the API may return them: absent, or with or without an id, any
\* is_playable, any restriction reason, any available_markets
TrackInputs ==
    {NullTrack} \cup
    {[tA EXCEPT !.id = i, !.is_playable = p, !.restr = r, !.markets = m] :
        i \in {None, Id22("a")}, p \in {"", "true", "false"},
        r \in {"", "market", "explicit"}, m \in SUBSET {"US", "DE"}}

\* user.get("country"): missing, or a country code
CountryInputs == {"", "US", "FR"}

InitClassify ==
    /\ JOBS = [j \in {} |-> NewJob]
    /\ JOBS_LOCK = "free"
    /\ env = [cat |-> 1, rejected |-> {}]
    /\ params = NoParams
    /\ pc = "call"
    /\ w \in [track : TrackInputs, user_country : CountryInputs, ret : {None}]
    /\ wr = WriterLocals
    /\ st = StatusIdle
    /\ ex = ExportIdle
    /\ hist = NoHistory

classify ==
    /\ pc = "call"
    /\ w' = [w EXCEPT !.ret = Some(is_unavailable_with_reason(w.track, w.user_country))]
    /\ pc' = "return"
    /\ UNCHANGED <<JOBS, JOBS_LOCK, env, params, wr, st, ex, hist>>

SpecClassify == InitClassify /\ [][classify]_vars

-----------------------------------------------------------------------------
(* The two classifiers called on the same arguments: is_unavailable of      *)
(* spoti.py and is_unavailable_with_reason of app.py                        *)

\* restrictions.reason as the API documents it: absent, one of market,
\* product, explicit, or a code added later
RestrictionInputs == {"", "market", "product", "explicit", "payment_required"}

VariantTracks ==
    {NullTrack} \cup
    {[tA EXCEPT !.id = i, !.is_playable = p, !.restr = r, !.markets = m] :
        i \in {None, Id22("a")}, p \in {"", "true", "false"},
        r \in RestrictionInputs, m \in SUBSET {"US", "DE"}}

InitVariants ==
    /\ JOBS = [j \in {} |-> NewJob]
    /\ JOBS_LOCK = "free"
    /\ env = [cat |-> 1, rejected |-> {}]
    /\ params = NoParams
    /\ pc = "call"
    /\ w \in [track : VariantTracks, user_country : CountryInputs,
               ret : {None}, ret_sync : {None}]
    /\ wr = WriterLocals
    /\ st = StatusIdle
    /\ ex = ExportIdle
    /\ hist = NoHistory

classify_variants ==
    /\ pc = "call"
    /\ w' = [w EXCEPT !.ret = Some(is_unavailable_with_reason(w.track, w.user_country)),
                      !.ret_sync = Some(is_unavailable(w.track, w.user_country))]
    /\ pc' = "return"
    /\ UNCHANGED <<JOBS, JOBS_LOCK, env, params, wr, st, ex, hist>>

SpecVariants == InitVariants /\ [][classify_variants]_vars

-----------------------------------------------------------------------------
(* normalize_playlist_id called on its own *)

\* identifiers: one letter repeated, digits, a mix of digits and both cases
NormIds ==
    {Id22("P"), Id22("0"), Id22("z"),
     [i \in 1..IdLen |-> IF i % 3 = 0 THEN "7" ELSE IF i % 3 = 1 THEN "k" ELSE "Q"]}

\* the three forms the function recognizes (the URL with and without query)
RecognizedForms == {"bare", "uri", "url", "url_query"}
\* texts that are none of them
OtherForms == {"word", "two_words", "short", "long", "dash", "short_uri", "track_uri",
               "short_url", "blank"}

\* the text of form f made from identifier x
NormText(x, f) ==
    CASE f = "bare" -> x
      [] f = "uri" -> PlaylistPrefix \o x
      [] f = "url" -> PlaylistUrlPrefix \o x
      [] f = "url_query" -> PlaylistUrlPrefix \o x \o SiQuery
      [] f = "word" -> <<"n", "o", "p", "e">>
      [] f = "two_words" -> <<"m", "y", " ", "m", "i", "x">>
      [] f = "short" -> SubSeq(x, 1, IdLen - 1)
      [] f = "long" -> x \o <<"a">>
      [] f = "dash" -> SubSeq(x, 1, IdLen - 1) \o <<"-">>
      [] f = "short_uri" -> PlaylistPrefix \o SubSeq(x, 1, IdLen - 1)
      [] f = "track_uri" -> TrackPrefix \o x
      [] f = "short_url" -> PlaylistUrlPrefix \o SubSeq(x, 1, IdLen - 1) \o SiQuery
      [] f = "blank" -> <<>>

\* white space the caller may leave around the text
Pads == {"none", "lead", "trail", "both"}
Padded(t, pad) ==
    (IF pad \in {"lead", "both"} THEN <<" ">> ELSE <<>>)
    \o t \o (IF pad \in {"trail", "both"} THEN <<" ", "\n">> ELSE <<>>)

InitNormalize ==
    /\ JOBS = [j \in {} |-> NewJob]
    /\ JOBS_LOCK = "free"
    /\ env = [cat |-> 1, rejected |-> {}]
    /\ params = NoParams
    /\ pc = "call"
    /\ \E x \in NormIds, f \in RecognizedForms \cup OtherForms, pad \in Pads :
          w = [id |-> x, form |-> f, pad |-> pad,
               value |-> Padded(NormText(x, f), pad), ret |-> None]
    /\ wr = WriterLocals
    /\ st = StatusIdle
    /\ ex = ExportIdle
    /\ hist = NoHistory

normalize ==
    /\ pc = "call"
    /\ w' = [w EXCEPT !.ret = Some(normalize_playlist_id(w.value))]
    /\ pc' = "return"
    /\ UNCHANGED <<JOBS, JOBS_LOCK, env, params, wr, st, ex, hist>>

SpecNormalize == InitNormalize /\ [][normalize]_vars

-----------------------------------------------------------------------------
(* Properties *)

Job == JOBS[job_id]
Started == job_id \in DOMAIN JOBS

\* how often x stands in the sequence s
Count(s, x) == Cardinality({i \in 1..Len(s) : s[i] = x})

\* the write loop has run to its end
WriteEnded ==
    /\ ~params.dry_run
    /\ \/ pc \in {"summary", "finish", "finish_result", "finish_status"}
       \/ pc = "exit" /\ Started /\ Job.status = "done"

\* C1: when the add call raises the rejectable failure exactly for the chunks
\* that hold a member of R, the write of N distinct locators ends with
\* addedCount = N - |R|, the ledger holds exactly the members of R, each once,
\* and every locator outside R is committed exactly once (none of R is).
C1_ResilientWrite ==
    WriteEnded =>
        /\ w.added_total = Len(w.filtered_uris) - Cardinality(env.rejected)
        /\ Len(Job.bad_uri_rows) = Cardinality(env.rejected)
        /\ {Job.bad_uri_rows[i].track_uri : i \in 1..Len(Job.bad_uri_rows)} = env.rejected
        /\ \A u \in Range(w.filtered_uris) :
             Count(hist.committed, u) = IF u \in env.rejected THEN 0 ELSE 1
        /\ Len(hist.committed) = w.added_total

\* Scenario D: batch size 2, five locators, the third one rejected: 4 added
C1_Witness ==
    /\ pc = "summary"
    /\ params.batch_size = 2
    /\ Len(w.filtered_uris) = 5
    /\ env.rejected = {w.filtered_uris[3]}
    /\ w.added_total = 4
    /\ Len(Job.bad_uri_rows) = 1

\* C2 as stated: whatever failure an add call reports, the job does not end in
\* status error (after the first add call nothing else of the worker can fail)
C2_AnyAddFailureSurvives ==
    (Started /\ hist.calls > 0) => ~IsError(Job.status)

\* C2 as amended: a rejection (SpotifyException) by the add call never makes
\* the job fail: the worker does not enter its exception handler, the rejected
\* single locator is recorded with note add_failed:<message>, and every later
\* chunk is still attempted, so that at the end of the write each candidate is
\* committed or in the ledger. A failure of any other kind is not caught by
\* the writer and ends the job in status error.
C2_RejectionSurvives ==
    /\ (Started /\ hist.calls > 0 /\ hist.failed = 0) =>
          (pc # "except" /\ ~IsError(Job.status))
    /\ (Started /\ hist.failed > 0 /\ pc = "exit") =>
          Job.status = "error: playlist_add_items"
    /\ WriteEnded =>
          /\ \A i \in 1..Len(Job.bad_uri_rows) :
                /\ Job.bad_uri_rows[i].note = "add_failed:" \o RejectMsg
                /\ Job.bad_uri_rows[i].track_uri \in env.rejected
          /\ Range(w.filtered_uris) =
                Range(hist.committed)
                \cup {Job.bad_uri_rows[i].track_uri : i \in 1..Len(Job.bad_uri_rows)}

\* a live job is done although the provider rejected a locator; later chunks went in
C2_Witness ==
    /\ pc = "exit"
    /\ Started /\ Job.status = "done"
    /\ env.rejected # {}
    /\ Len(Job.bad_uri_rows) >= 1
    /\ w.filtered_uris[1] \in env.rejected
    /\ Len(hist.committed) >= 1

\* the non-empty locators of unavailable items that fail the locator format
Malformed == {u \in Range(hist.offered) : ~URI_RE(u)}

\* C3: every malformed locator met during the scan stays out of the candidate
\* set and is recorded in the bad-item list with note invalid_uri_format, and
\* the job does not fail because of it
C3_MalformedRecorded ==
    (Started /\ pc \in {"dry_summary", "create", "exit"} /\ w.exc = "") =>
        \A u \in Malformed :
            /\ u \notin Range(w.good_uris)
            /\ \E i \in 1..Len(Job.bad_uri_rows) :
                  /\ Job.bad_uri_rows[i].track_uri = u
                  /\ Job.bad_uri_rows[i].note = "invalid_uri_format"

\* the first occurrences of the members of s, in order
RECURSIVE FirstSeen(_)
FirstSeen(s) ==
    IF s = <<>> THEN <<>>
    ELSE LET init == FirstSeen(SubSeq(s, 1, Len(s) - 1))
             x == s[Len(s)]
         IN  IF x \in Range(init) THEN init ELSE Append(init, x)

\* the well-formed locators among those offered, in scan order
Valid(s) == SelectSeq(s, URI_RE)

\* C4: at every point of a job good_uris holds no locator twice, its members
\* are exactly seen_uris, and it is the list of first occurrences of the
\* well-formed locators offered so far over all playlists and the saved
\* tracks (so that a locator offered again changes nothing)
C4_Dedup ==
    /\ w.good_uris = FirstSeen(Valid(hist.offered))
    /\ Range(w.good_uris) = w.seen_uris
    /\ Cardinality(w.seen_uris) = Len(w.good_uris)

\* a well-formed locator has been offered a second time, from another source
C4_Witness ==
    /\ Started
    /\ \E i, j \in 1..Len(hist.offered) :
          /\ i < j
          /\ hist.offered[i] = hist.offered[j]
          /\ URI_RE(hist.offered[i])
    /\ Len(Job.csv_rows) >= 2
    /\ Job.csv_rows[1].source # Job.csv_rows[Len(Job.csv_rows)].source

\* C5: a job's status starts as running, changes at most once, to done or to
\* an error message, and once it is terminal nothing of the job record changes
C5_Lifecycle ==
    [][/\ (~Started /\ Started') => JOBS'[job_id] = NewJob
       /\ Started =>
            /\ Started'
            /\ Job.status # JOBS'[job_id].status =>
                  (Job.status = "running" /\ JOBS'[job_id].status # "running")
            /\ IsTerminal(Job.status) => JOBS'[job_id] = Job]_vars

\* the job is done and a status request is reading it
C5_Witness ==
    /\ Started /\ Job.status = "done"
    /\ pc = "exit"
    /\ st.pc = "render"

IsPrefix(s, t) == Len(s) <= Len(t) /\ SubSeq(t, 1, Len(s)) = s

\* C6: an exception raised at a step of the worker takes the worker to its
\* handler, whose only step sets the status to error: <message>, leaves every
\* other field of the job as it was and ends the worker; rows and bad-item
\* records are only ever appended; and an export of a job that was terminal
\* when it was looked up returns every row of the job record
C6_FailureSemantics ==
    [][/\ w'.exc # w.exc => (pc' = "except" /\ JOBS' = JOBS)
       /\ (pc = "except" /\ pc' # pc) =>
             /\ pc' = "exit"
             /\ JOBS'[job_id] = [Job EXCEPT !.status = "error: " \o w.exc]
       /\ pc = "exit" => (pc' = "exit" /\ JOBS' = JOBS)
       /\ Started =>
             /\ IsPrefix(Job.csv_rows, JOBS'[job_id].csv_rows)
             /\ IsPrefix(Job.bad_uri_rows, JOBS'[job_id].bad_uri_rows)
       /\ (ex.pc = "rows" /\ ex'.pc = "idle" /\ ex.term) =>
             (ex.out = ExportList /\ JOBS' = JOBS)]_vars

\* the saved-tracks fetch failed after the playlists gave rows, and an export
\* of the failed job has written all of them
C6_Witness ==
    /\ pc = "exit"
    /\ Started /\ Job.status = "error: current_user_saved_tracks"
    /\ Len(Job.csv_rows) >= 2
    /\ ex.pc = "rows" /\ ex.term /\ ex.which = "csv_rows"
    /\ ex.i = Len(Job.csv_rows)
    /\ ex.out = Job.csv_rows

\* C7: the values a status request has read are those the job held when the
\* request entered its block, all of them at that one instant: the result is
\* there exactly with status done, a playlist_url only with status done, and
\* processed is the job's value at that instant
C7_Snapshot ==
    (st.pc # "idle" /\ st.job_id \in DOMAIN JOBS) =>
        /\ st.snap = Some(ViewOf(JOBS[st.job_id]))
        /\ st.pc = "render" =>
              /\ st.view = st.snap
              /\ st.view[1].result # None <=> st.view[1].status = "done"
              /\ st.view[1].playlist_url # None => st.view[1].status = "done"
              /\ st.view[1].running <=> st.view[1].status = "running"

\* a status request has read a running job while the worker waits at the
\* door of its final block with the result ready
C7_Witness ==
    /\ st.pc = "render" /\ st.job_id = job_id
    /\ pc = "finish"
    /\ w.result # None
    /\ st.view[1].status = "running"
    /\ st.view[1].processed >= 8

\* C8: no step reads or writes a job's mutable fields while another thread
\* holds JOBS_LOCK: not a write of the job table, not the worker's reads of
\* the list lengths for the summary, not a read of the status request, not a
\* row taken by an export
C8_LockDiscipline ==
    [][/\ JOBS' # JOBS => JOBS_LOCK \in {"free", "worker"}
       /\ w'.result # w.result => JOBS_LOCK \in {"free", "worker"}
       /\ (st.pc # "idle" /\ st'.view # st.view) => JOBS_LOCK = "status"
       /\ (ex.pc = "rows" /\ ex'.i # ex.i) => JOBS_LOCK \in {"free", "export"}]_vars

\* the number of items of the first n target playlists
RECURSIVE ItemCount(_)
ItemCount(n) ==
    IF n = 0 THEN 0 ELSE ItemCount(n - 1) + Len(ItemsOf(w.playlists[n].id))

\* the number of items the scan has been through, from where it stands
Handled ==
    IF pc \in {"scan_fetch", "scan_item", "scan_bump"}
    THEN ItemCount(w.pl_i - 1) + w.offset + (w.it_i - 1)
    ELSE IF pc \in {"liked_fetch", "liked_item", "liked_bump"}
    THEN ItemCount(Len(w.playlists)) + w.offset + (w.it_i - 1)
    ELSE ItemCount(Len(w.playlists)) + Len(Catalog.liked)

\* C9: processed never decreases and grows by one at a time; while the scan
\* runs it is the number of items the scan has been through, the saved tracks
\* counted on from the playlists' count; and from the end of the scan on (so
\* in a dry run that is done) it is the number of all items of the scanned
\* playlists and of the saved tracks
C9_Progress ==
    /\ [](Started /\ pc \notin {"current_user", "get_playlist", "list_playlists",
                                "estimate", "liked_total", "set_total",
                                "except"}
                  /\ ~(pc = "exit" /\ IsError(Job.status))
             => Job.progress.processed = Handled)
    /\ [](Started /\ pc \in {"current_user", "get_playlist", "list_playlists",
                             "estimate", "liked_total", "set_total"}
             => Job.progress.processed = 0)
    /\ [][Started => JOBS'[job_id].progress.processed \in
                        {Job.progress.processed, Job.progress.processed + 1}]_vars

\* a dry run over two playlists of three items and two saved tracks is done
C9_Witness ==
    /\ pc = "exit"
    /\ params.dry_run
    /\ Started /\ Job.status = "done"
    /\ Len(w.playlists) = 2
    /\ Job.progress.processed = 8

\* C10: a dry run never creates a playlist and never adds items; when it ends
\* without an exception it is done, with no playlist_url and a summary whose
\* count of writable locators is the length of the deduplicated candidate
\* list; and, outside the worker's final block, a job has a playlist_url
\* only if it is not a dry run and is done
C10_DryRun ==
    /\ params.dry_run => (hist.creates = 0 /\ hist.calls = 0 /\ hist.committed = <<>>)
    /\ (Started /\ params.dry_run /\ pc = "exit" /\ w.exc = "") =>
          /\ Job.status = "done"
          /\ Job.playlist_url = None
          /\ Job.result # None
          /\ Job.result[1].kind = "dry"
          /\ Job.result[1].writable = Len(w.good_uris)
          /\ Job.result[1].writable = Cardinality(Range(Valid(hist.offered)))
    /\ (Started /\ JOBS_LOCK # "worker" /\ Job.playlist_url # None) =>
          (~params.dry_run /\ Job.status = "done")

\* a dry run that found three distinct well-formed locators is done
C10_Witness ==
    /\ pc = "exit"
    /\ params.dry_run
    /\ Started /\ Job.status = "done"
    /\ Job.result # None /\ Job.result[1].kind = "dry"
    /\ Job.result[1].writable = 3
    /\ Job.playlist_url = None

\* C11: a failed item-count lookup of the estimate is swallowed: the step
\* neither raises nor ends the job, the estimate moves on to the next playlist
\* and then to the saved tracks and the scan, and the total stored is the sum of
\* the counts that were obtained (all counts less the missed ones) plus the
\* count of the saved tracks
C11_EstimateSwallowed ==
    /\ [][pc = "estimate" =>
             /\ pc' \in {"estimate", "liked_total"}
             /\ w'.exc = ""
             /\ w'.total_est \in {w.total_est,
                                  w.total_est + Len(ItemsOf(w.playlists[w.est_i].id))}]_vars
    /\ [](Started /\ pc \in {"scan_fetch", "scan_item", "scan_bump", "liked_fetch",
                             "liked_item", "liked_bump", "filter", "dry_summary",
                             "create", "summary", "finish"}
             => Job.progress.total =
                   ItemCount(Len(w.playlists)) - hist.missed + Len(Catalog.liked))
    /\ [](Started /\ Job.status = "done"
             => Job.progress.total =
                   ItemCount(Len(w.playlists)) - hist.missed + Len(Catalog.liked))

\* the count of the first of two playlists was not obtained and the job is
\* done, having scanned both
C11_Witness ==
    /\ pc = "exit"
    /\ Started /\ Job.status = "done"
    /\ Len(w.playlists) = 2
    /\ hist.missed = 3
    /\ Job.progress.total = 5
    /\ Job.progress.processed = 8

\* text x;y, or the one of them that is not empty
Glue(x, y) == IF x = "" THEN y ELSE IF y = "" THEN x ELSE x \o ";" \o y

\* C12 as stated: the reason text lists, in this order, every rule that
\* applies to the item, the missing-item rule and the three others alike (an
\* absent item has nothing the three others could apply to)
C12_AllReasonsCollected ==
    pc = "return" =>
        LET t == w.track
            c == w.user_country
            m == IF t.null \/ t.id = None THEN "no_track_object" ELSE ""
            a == IF ~t.null /\ t.is_playable = "false" THEN "is_playable=false" ELSE ""
            b == IF ~t.null /\ t.restr # "" THEN "restriction:" \o t.restr ELSE ""
            d == IF ~t.null /\ c # "" /\ c \notin t.markets
                 THEN "not_in_user_market" ELSE ""
        IN  /\ w.ret[1][2] = Glue(Glue(Glue(m, a), b), d)
            /\ w.ret[1][1] <=> w.ret[1][2] # ""

\* C12 as amended: for an item that is absent or has no id the reason text is
\* the missing-item reason alone; for any other item it lists, in this order
\* and all of them, the not-playable reason when is_playable is false,
\* restriction:<code> when there is a restriction reason, and the
\* not-in-market reason when the country is known and not among the
\* available markets; and the item is unavailable exactly when the text is
\* not empty
C12_Classifier ==
    pc = "return" =>
        LET t == w.track
            c == w.user_country
            a == IF t.is_playable = "false" THEN "is_playable=false" ELSE ""
            b == IF t.restr # "" THEN "restriction:" \o t.restr ELSE ""
            d == IF c # "" /\ c \notin t.markets THEN "not_in_user_market" ELSE ""
        IN  /\ w.ret[1][2] = IF t.null \/ t.id = None THEN "no_track_object"
                             ELSE Glue(Glue(a, b), d)
            /\ w.ret[1][1] <=> w.ret[1][2] # ""
            /\ w.ret[1][1] <=>
                  \/ t.null \/ t.id = None \/ t.is_playable = "false" \/ t.restr # ""
                  \/ (c # "" /\ c \notin t.markets)

\* a track with an id to which all three other rules apply has been classified
C12_Witness ==
    /\ pc = "return"
    /\ w.track.id # None
    /\ w.ret = Some(<<TRUE, "is_playable=false;restriction:market;not_in_user_market">>)

\* C13: the worker runs only once its job is in JOBS; the step that puts it
\* there is the one that starts the worker, and the record it puts is status
\* running, processed 0, total 0, no result, no playlist_url, empty lists; no
\* job is ever removed; a status request for the started job's id goes on to
\* read the job, and a request for any id that is not in JOBS ends not found
C13_Registration ==
    /\ [](pc # "idle" => Started)
    /\ [](st.pc \in {"read_progress", "read_result", "render"}
             => (st.job_id = job_id /\ Started))
    /\ [][/\ DOMAIN JOBS \subseteq DOMAIN JOBS'
          /\ (~Started /\ Started') =>
                /\ pc = "idle" /\ pc' = "current_user"
                /\ JOBS'[job_id] = [status |-> "running",
                                    progress |-> [processed |-> 0, total |-> 0],
                                    result |-> <<>>, playlist_url |-> <<>>,
                                    csv_rows |-> <<>>, bad_uri_rows |-> <<>>]
          /\ (st.pc = "lookup" /\ st' # st) =>
                IF st.job_id = job_id /\ Started
                THEN st'.pc = "read_progress"
                ELSE st' = StatusIdle]_vars

\* a status request finds the job although its worker has not made a step yet
C13_Witness ==
    /\ pc = "current_user"
    /\ st.pc = "read_progress"
    /\ st.job_id = job_id
    /\ st.view[1].status = "running"

\* C14: every started job reaches status done or an error status; and each
\* bisection of a rejected chunk hands add_chunk two chunks that are not empty,
\* are strictly shorter than the chunk and make it up
C14_Termination ==
    /\ Started ~> (Started /\ IsTerminal(Job.status))
    /\ [][(pc = "add_chunk" /\ pc' = "add_chunk" /\ Len(wr'.stack) = Len(wr.stack) + 1) =>
             LET chunk == Head(wr.stack)
                 left == wr'.stack[1]
                 right == wr'.stack[2]
             IN  /\ Len(left) >= 1 /\ Len(left) < Len(chunk)
                 /\ Len(right) >= 1 /\ Len(right) < Len(chunk)
                 /\ left \o right = chunk]_vars

\* a live job is done after a chunk of three was bisected twice
C14_Witness ==
    /\ pc = "exit"
    /\ Started /\ Job.status = "done"
    /\ params.batch_size = 100
    /\ Len(w.filtered_uris) = 3
    /\ env.rejected = {w.filtered_uris[3]}
    /\ hist.calls = 5

\* the items of the first n target playlists in scan order, each with its source
RECURSIVE PlaylistEntries(_)
PlaylistEntries(n) ==
    IF n = 0 THEN <<>>
    ELSE PlaylistEntries(n - 1) \o
         [i \in 1..Len(ItemsOf(w.playlists[n].id)) |->
             [source |-> w.playlists[n].name, item |-> ItemsOf(w.playlists[n].id)[i]]]

\* all items of the job in scan order: the target playlists, then the saved tracks
AllEntries ==
    PlaylistEntries(Len(w.playlists)) \o
    [i \in 1..Len(Catalog.liked) |-> [source |-> "Liked Songs", item |-> Catalog.liked[i]]]

IsUnavailableEntry(e) == is_unavailable_with_reason(e.item.track, w.user_country)[1]

\* the unavailable items among the first n of entries
UnavailableAmong(entries, n) == SelectSeq(SubSeq(entries, 1, n), IsUnavailableEntry)

\* the number of items whose classification has been acted on
Decided == Handled + (IF pc \in {"scan_bump", "liked_bump"} THEN 1 ELSE 0)

RowOf(e, row) ==
    /\ row.source = e.source
    /\ row.added_at = e.item.added_at
    /\ row.reason = is_unavailable_with_reason(e.item.track, w.user_country)[2]
    /\ row.reason # ""
    /\ e.item.track.null =>
          (row.reason = "no_track_object" /\ row.track_uri = <<>> /\ row.track_id = <<>>)
    /\ ~e.item.track.null =>
          (row.track_uri = e.item.track.uri /\ row.track_id = e.item.track.id)

\* C15: the job's rows are, one for one and in scan order, the unavailable
\* items among those scanned so far, each row with its item's source, date and
\* reasons (so an available item has no row); the row of an item without track
\* object has the missing-item reason and no locator, and no candidate comes
\* from such an item
C15_UnavailableRows ==
    Started =>
        LET entries == AllEntries
            all == UnavailableAmong(entries, Len(entries))
            rows == Job.csv_rows
        IN  /\ Len(rows) <= Len(all)
            /\ \A k \in 1..Len(rows) : RowOf(all[k], rows[k])
            /\ (pc \notin {"current_user", "get_playlist", "list_playlists", "estimate",
                           "liked_total", "set_total", "except"}
                /\ ~(pc = "exit" /\ IsError(Job.status)))
                  => Len(rows) = Len(UnavailableAmong(entries, Decided))
            /\ Range(w.good_uris) \subseteq
                  {all[k].item.track.uri : k \in {j \in 1..Len(rows) : ~all[j].item.track.null}}

\* the three items of playlist P have been classified: a row for its not
\* playable track, none for its available track, a row for its item without
\* track object; one candidate
C15_Witness ==
    /\ pc = "scan_bump"
    /\ Started
    /\ hist.yielded = 3
    /\ Len(Job.csv_rows) = 2
    /\ Job.csv_rows[2].reason = "no_track_object"
    /\ Job.csv_rows[2].track_uri = <<>>
    /\ Job.csv_rows[2].added_at = 3
    /\ Len(w.good_uris) = 1

\* C16: for each identifier, the bare identifier, the locator
\* spotify:playlist:<id> and the web URL with /playlist/<id>, with and without
\* a query, are all normalized to that identifier
C16_RoundTrip ==
    (pc = "return" /\ w.form \in RecognizedForms /\ w.pad = "none") =>
        w.ret = Some(w.id)

\* the share URL of a mixed identifier, query and all, has been normalized
C16_Witness ==
    /\ pc = "return"
    /\ w.form = "url_query" /\ w.pad = "none"
    /\ w.id # Id22("P") /\ w.id # Id22("0") /\ w.id # Id22("z")
    /\ Len(w.value) > Len(w.id)
    /\ w.ret = Some(w.id)

\* C17: a text that is in none of the three recognized forms is returned as
\* it was given, character for character
C17_PassThrough ==
    (pc = "return" /\ w.form \in OtherForms) => w.ret = Some(w.value)

\* the page size of each enumeration
PageLimit(src) ==
    IF src = "playlists" THEN PlaylistPageLimit
    ELSE IF src = "items" THEN ItemsPageLimit ELSE SavedPageLimit

\* what identifies the i-th element of the listing an enumeration goes through
ListedAt(src, key, i) ==
    IF src = "playlists" THEN Catalog.playlists[i].id
    ELSE IF src = "items" THEN ItemsOf(w.playlists[key].id)[i].added_at
    ELSE Catalog.liked[i].added_at

\* the elements of the first k fetched pages, page after page
RECURSIVE PagesConcat(_)
PagesConcat(k) ==
    IF k = 0 THEN <<>>
    ELSE LET r == hist.fetched[k]
         IN  PagesConcat(k - 1) \o
             [j \in 1..r.n |-> [src |-> r.src, key |-> r.key,
                                at |-> ListedAt(r.src, r.key, r.offset + j)]]

SameListing(r, q) == r.src = q.src /\ r.key = q.key

ScanOver ==
    \/ pc \in {"filter", "dry_summary", "create", "write", "add_chunk", "summary",
               "finish", "finish_result", "finish_status"}
    \/ pc = "exit" /\ Started /\ Job.status = "done"

\* C18: each enumeration (the playlists without cap, the items of each target
\* playlist, the saved tracks) fetches its first page at offset 0 and each
\* further page at the previous offset plus the page size, and only after a
\* page that reported a next page; no listing is enumerated twice; the
\* elements handed on are the elements of the fetched pages, each once and
\* in page order, up to the part of the last page still to come; and once
\* the scan is over every enumeration has ended at a page without next and
\* all elements of all fetched pages were handed on
C18_Pagination ==
    params.max_playlists = None =>
        LET f == hist.fetched
            n == Len(f)
        IN  /\ \A i \in 1..n :
                 IF i > 1 /\ SameListing(f[i], f[i - 1])
                 THEN /\ f[i].offset = f[i - 1].offset + PageLimit(f[i].src)
                      /\ f[i - 1].next
                 ELSE /\ f[i].offset = 0
                      /\ \A j \in 1..(i - 1) : ~SameListing(f[i], f[j])
            /\ IsPrefix(hist.items, PagesConcat(n))
            /\ n > 0 => Len(hist.items) >= Len(PagesConcat(n - 1))
            /\ ScanOver =>
                 /\ hist.items = PagesConcat(n)
                 /\ \A i \in 1..n :
                      (i = n \/ ~SameListing(f[i], f[i + 1])) => ~f[i].next

\* the job over the long listing is done: two pages of playlists, two pages
\* of items of the last playlist, two pages of saved tracks
C18_Witness ==
    /\ pc = "exit"
    /\ Started /\ Job.status = "done"
    /\ params.max_playlists = None
    /\ Len(w.playlists) = PlaylistPageLimit + 1
    /\ hist.fetched[2] = [src |-> "playlists", key |-> 0, offset |-> PlaylistPageLimit,
                          n |-> 1, next |-> FALSE]
    /\ \E i \in 1..Len(hist.fetched) :
          hist.fetched[i] = [src |-> "items", key |-> PlaylistPageLimit + 1,
                             offset |-> ItemsPageLimit, n |-> 1, next |-> FALSE]
    /\ hist.fetched[Len(hist.fetched)] =
          [src |-> "saved", key |-> 0, offset |-> SavedPageLimit, n |-> 1, next |-> FALSE]
    /\ Len(hist.items) = (PlaylistPageLimit + 1) + (ItemsPageLimit + 1) + (SavedPageLimit + 1)

\* the identifiers of the first n playlists of the user's listing
FirstListed(n) == [i \in 1..n |-> Catalog.playlists[i].id]

\* C19: a job with cap k and no single playlist has, once its playlists are
\* resolved, at most k target playlists, and exactly the first min(k, number
\* of the user's playlists) of the listing; these are the playlists it
\* estimates and scans
C19_Cap ==
    (/\ Started
     /\ params.only_pl_id = None /\ params.max_playlists # None
     /\ pc \notin {"current_user", "list_playlists", "except"}
     /\ ~(pc = "exit" /\ IsError(Job.status)))
    => LET k == params.max_playlists[1]
       IN  /\ Len(w.playlists) <= k
           /\ [i \in 1..Len(w.playlists) |-> w.playlists[i].id]
                 = FirstListed(Min(k, Len(Catalog.playlists)))
           /\ \A i \in 1..Len(hist.items) :
                 hist.items[i].src = "items" => hist.items[i].key <= k

\* C20: the batch size of a started job is between 1 and 100, and every chunk
\* that add_chunk is about to send or holds for later, the halves of a
\* bisection among them, has at least one locator and at most batch-size
C20_BatchBounds ==
    Started =>
        /\ params.batch_size \in 1..100
        /\ \A k \in 1..Len(wr.stack) :
              /\ Len(wr.stack[k]) >= 1
              /\ Len(wr.stack[k]) <= params.batch_size
        /\ pc = "add_chunk" => wr.stack # <<>>

\* batch size 2: the first batch of two was rejected and bisected, its two
\* halves of one locator are to be sent
C20_Witness ==
    /\ pc = "add_chunk"
    /\ params.batch_size = 2
    /\ hist.calls = 1
    /\ Len(wr.stack) = 2
    /\ Len(wr.stack[1]) = 1 /\ Len(wr.stack[2]) = 1

-----------------------------------------------------------------------------

\* the chunks of a stack, joined in the order in which they will be sent
RECURSIVE Flatten(_)
Flatten(stack) == IF stack = <<>> THEN <<>> ELSE Head(stack) \o Flatten(Tail(stack))

\* s can be had from t by leaving elements out
RECURSIVE IsSubseq(_, _)
IsSubseq(s, t) ==
    IF s = <<>> THEN TRUE
    ELSE IF t = <<>> THEN FALSE
    ELSE IF Head(s) = Head(t) THEN IsSubseq(Tail(s), Tail(t))
    ELSE IsSubseq(s, Tail(t))

IsAddFailed(row) == row.note = "add_failed:" \o RejectMsg

\* the locators of the ledger rows written by the writer, in ledger order
AddFailedUris ==
    LET rows == SelectSeq(Job.bad_uri_rows, IsAddFailed)
    IN  [i \in 1..Len(rows) |-> rows[i].track_uri]

\* the positions (in the candidate list) of the locators of s
Positions(s) == {i \in 1..Len(w.filtered_uris) : \E k \in 1..Len(s) : s[k] = w.filtered_uris[i]}

\* C21: a rejected chunk of n >= 2 locators is replaced by its first n \div 2
\* locators and, right behind them, the remaining ones, and the first half is
\* dealt with to the end before the second is touched: the locators dealt
\* with so far are always a leading part of the candidate list and the
\* pending chunks, in the order they will be sent, are what follows it in the
\* batch. So the locators of the successful add calls, joined in call order,
\* are a subsequence of the candidate list, and so are the locators of the
\* add_failed ledger rows.
C21_WriteOrder ==
    /\ [][(pc = "add_chunk" /\ hist'.calls = hist.calls + 1 /\ Rejects(Head(wr.stack))
             /\ Len(Head(wr.stack)) >= 2 /\ hist'.failed = hist.failed) =>
            LET chunk == Head(wr.stack)
                n == Len(chunk)
            IN  /\ pc' = "add_chunk"
                /\ wr'.stack = << [i \in 1..(n \div 2) |-> chunk[i]],
                                  [i \in 1..(n - n \div 2) |-> chunk[n \div 2 + i]] >>
                                \o Tail(wr.stack)]_vars
    /\ [](Started =>
            LET done == Len(hist.committed) + Len(AddFailedUris)
                todo == Flatten(wr.stack)
            IN  /\ IsSubseq(hist.committed, w.filtered_uris)
                /\ IsSubseq(AddFailedUris, w.filtered_uris)
                /\ Positions(hist.committed) \cup Positions(AddFailedUris) = 1..done
                /\ \A k \in 1..Len(todo) :
                      /\ done + k <= Len(w.filtered_uris)
                      /\ todo[k] = w.filtered_uris[done + k])

\* one batch of five locators, the second and the fourth rejected: bisection
\* went two levels deep, three locators were added around the two recorded
\* ones, all in the order of the candidate list
C21_Witness ==
    /\ pc = "summary"
    /\ Len(w.filtered_uris) = 5
    /\ params.batch_size >= 5
    /\ env.rejected = {w.filtered_uris[2], w.filtered_uris[4]}
    /\ hist.committed = <<w.filtered_uris[1], w.filtered_uris[3], w.filtered_uris[5]>>
    /\ AddFailedUris = <<w.filtered_uris[2], w.filtered_uris[4]>>

-----------------------------------------------------------------------------

\* the message of the exception raised by a page request of listing src
FetchError(src) ==
    CASE src = "playlists" -> "current_user_playlists"
      [] src = "items"     -> "playlist_items"
      [] src = "saved"     -> "current_user_saved_tracks"

\* C22: when a page request of an enumerator (the playlist listing, the items
\* of a playlist, the saved tracks) raises, the worker goes straight to its
\* exception handler; that page (listing, offset) is never among the pages
\* fetched, no request is refused twice, from then on the job calls the
\* provider no more, and it ends in status error carrying the failure.
C22_NoRetry ==
    /\ [][hist'.refused # hist.refused =>
            /\ hist.refused = <<>>
            /\ pc' = "except"
            /\ hist'.fetched = hist.fetched]_vars
    /\ [][hist.refused # <<>> => hist' = hist]_vars
    /\ [](hist.refused # <<>> =>
            LET r == hist.refused[1]
            IN  /\ Len(hist.refused) = 1
                /\ pc \in {"except", "exit"}
                /\ \A k \in 1..Len(hist.fetched) :
                      ~(/\ hist.fetched[k].src = r.src
                        /\ hist.fetched[k].key = r.key
                        /\ hist.fetched[k].offset = r.offset)
                /\ pc = "exit" => Job.status = "error: " \o FetchError(r.src))
    /\ (hist.refused # <<>>) ~> (Started /\ IsError(Job.status))

\* the request for the second page of a playlist's items raised after the
\* first page had been scanned: the job has ended in error
C22_Witness ==
    /\ pc = "exit"
    /\ hist.refused = <<[src |-> "items", key |-> 1, offset |-> ItemsPageLimit]>>
    /\ hist.fetched[Len(hist.fetched)] = [src |-> "items", key |-> 1, offset |-> 0,
                                          n |-> ItemsPageLimit, next |-> TRUE]
    /\ hist.yielded = ItemsPageLimit
    /\ Job.status = "error: playlist_items"
    /\ Job.progress.processed = ItemsPageLimit

-----------------------------------------------------------------------------

\* the worker's positions up to the write of the total
BeforeTotal == {"current_user", "get_playlist", "list_playlists", "estimate",
                "liked_total", "set_total"}

\* C23: the total of a job changes in one step only, the one that leaves
\* set_total with the playlists resolved and nothing processed yet, and that
\* step is never taken again; before it the total and processed are 0, after
\* it the total stays the estimate whatever the scan goes through; so a
\* status request that has read processed > 0 has read the final total.
C23_TotalOnce ==
    /\ [][Started /\ JOBS'[job_id].progress.total # Job.progress.total =>
            /\ pc = "set_total" /\ pc' \notin BeforeTotal
            /\ Job.progress.processed = 0 /\ Job.progress.total = 0
            /\ JOBS'[job_id].progress = [processed |-> 0, total |-> w.total_est]]_vars
    /\ [][Started /\ pc \notin BeforeTotal =>
            /\ pc' \notin BeforeTotal
            /\ JOBS'[job_id].progress.total = Job.progress.total
            /\ w'.total_est = w.total_est]_vars
    /\ [](Started /\ pc \in BeforeTotal => Job.progress = [processed |-> 0, total |-> 0])
    /\ [](Started /\ Job.progress.processed > 0 =>
            /\ pc \notin BeforeTotal
            /\ Job.progress.total = w.total_est)
    /\ [](st.pc \in {"read_result", "render"} /\ st.job_id = job_id
           /\ st.view[1].processed > 0 =>
            /\ st.view[1].total = Job.progress.total
            /\ st.view[1].total = w.total_est)

\* the size of one playlist could not be had, so the total fell short; a
\* status request has read a processed count above the total, which is still
\* the estimate
C23_Witness ==
    /\ st.pc = "render"
    /\ st.job_id = job_id
    /\ hist.missed > 0
    /\ st.view[1].total > 0
    /\ st.view[1].processed > st.view[1].total
    /\ st.view[1].total = Job.progress.total

-----------------------------------------------------------------------------

\* C24: for every item and every country, present or not, is_unavailable of
\* spoti.py and is_unavailable_with_reason of app.py return the same flag,
\* and both return TRUE for an item that carries a restriction reason,
\* whatever its code.
C24_VariantsAgree ==
    pc = "return" =>
        /\ w.ret_sync[1] = w.ret[1][1]
        /\ (~w.track.null /\ w.track.restr # "") => (w.ret_sync[1] /\ w.ret[1][1])

=============================================================================
